---- MODULE Spec2Model ----
(***************************************************************************)
(* Model of the staff panel's login / MFA session protocol                 *)
(* (src/src/panelapi/server.rs, PanelQuery handlers).                      *)
(*                                                                         *)
(* The two session tables are sets of rows:                                *)
(*   staffpanel__authchain (token, user_id, paneldata_ref, state)          *)
(*   staffpanel__paneldata (user_id PRIMARY KEY, mfa_secret, mfa_verified) *)
(* Spec     : every request is handled to completion before the next one.  *)
(* SpecUrl  : the same, with GetLoginUrl requests.                         *)
(* SpecStaff: the same, while staff_del removes users from the staff list. *)
(* SpecOtp  : the same, with a history of the codes ActivateSession took.  *)
(* SpecConc : Login transactions run statement by statement, interleaved,  *)
(*            under PostgreSQL's default isolation level (READ COMMITTED). *)
(* SpecRpc  : ExecuteRpc / GetRpcMethods for callers of every role.        *)
(* SpecChunk: UploadCdnFileChunk into the expiring chunk cache.            *)
(* SpecCdn  : UpdateCdnAsset (AddFile) on the chunk cache and the CDN tree.*)
(* SpecRest : the REST staff-action endpoints (src/api/src/routes.rs).     *)
(* SpecLeak : Login and the REST endpoints, for callers with and without a  *)
(*            users row.                                                   *)
(* SpecRecalc: the bot's staff recalc / add / del commands (src/src/staff.rs)*)
(* SpecCopy : CopyFile and Delete on populated trees, the tree before noted.*)
(* SpecOnboard : onboardman approve, deny, reset statement by statement.    *)
(* SpecDel  : staff del, add, recalc beside the REST endpoints.             *)
(* SpecAct  : ActivateSession and ResetMfa statement by statement, beside   *)
(*            Login, MfaCheckStatus and Logout.                            *)
(***************************************************************************)
EXTENDS Integers, FiniteSets, Sequences, TLC

\* ---------------------------------------------------------------- bounds
MaxTokens == 2      \* login tokens issued in one behaviour
NumSecrets == 2     \* distinct TOTP secrets generate_secret can return
NumCodes == 3       \* distinct one-time codes
MaxTime == 1        \* TOTP time steps (30 s windows) that elapse
MaxAccepts == 2     \* acceptances of one code that the history counts
NumChunkIds == 2    \* distinct chunk ids gen_random can return
ClockStep == 1800   \* seconds that pass in one step of the cache's clock
MaxTicks == 2       \* steps of the cache's clock
MaxNameLen == 2     \* characters of a name, when every name is tried
MaxPathLen == 4     \* characters of a path, when every path is tried
MaxUploads == 2     \* uploads that one chunk id takes

UserIds == {"u1", "u2"}
Procs == {"p1", "p2"}
Secrets == 1..NumSecrets
Codes == 0..(NumCodes - 1)
TokenInputs == 1..MaxTokens

\* CONFIG.panel.redirect_url (allow-list) and the redirect urls a caller sends
AllowedRedirects == {"https://panel.example/login"}
RedirectInputs == AllowedRedirects \cup {"https://evil.example/"}
\* outcome of the OAuth2 code exchange: a Discord identity or a failed call
OauthError == "oauth_error"
\* a Discord account that has no row in the users table
Stranger == "u3"
Identities == UserIds \cup {Stranger, OauthError}

VARIABLES
    users,      \* users table: rows [user_id, owner, hadmin, iblhdev, ibldev,
                \* admin, staff]
    authchain,  \* staffpanel__authchain: rows [token, user_id, paneldata_ref, state]
    paneldata,  \* staffpanel__paneldata: rows [user_id, mfa_secret, mfa_verified]
    issued,     \* number of login tokens generated so far (tokens are 1..issued)
    now,        \* current TOTP time step (unix time / 30)
    resp,       \* the last request and the response it got
    pc,         \* SpecConc: position of each in-flight Login request
    tx,         \* SpecConc: the open transaction of each in-flight Login
    accepted,   \* SpecOtp: how often ActivateSession accepted the code of
                \* <<user, secret, time step>> (history, not program state)
    rpclog,     \* the changes RPC handlers have applied: [user_id, method]
    cache,      \* cdn_file_chunks_cache: entries [id, chunk, at]
    clock,      \* seconds since start (the chunk cache's time-to-live clock)
    fs,         \* the CDN scope's file tree: node -> absent / dir / file
    tmp,        \* the temporary files AddFile has in /tmp
    drawn,      \* chunk ids gen_random made for the last UploadCdnFileChunk
                \* (history, not program state)
    seen,       \* SpecCdn: what the last AddFile met and whether it changed
                \* anything (history, not program state)
    job,        \* SpecAsm: the locals of each in-flight AddFile request
    hist,       \* SpecAsm: how often each uploaded chunk was written into a
                \* temporary file, and the files that passed the digest
                \* test (history, not program state)
    guild,      \* the staff server's members: member id -> the roles held
    onboard,    \* users.staff_onboard_state of each user
    cmd         \* the locals of each in-flight onboardman command

\* the state of the CDN subsystem, and of the RPC and CDN subsystems
cdn == <<cache, clock, fs, tmp, drawn, seen>>
ext == <<rpclog, cdn>>
\* the state of AddFile requests that run step by step
inflight == <<job, hist>>
\* the state the bot's staff and onboardman commands work on
bot == <<guild, onboard, cmd>>

vars == <<users, authchain, paneldata, issued, now, resp, pc, tx, accepted, ext, inflight, bot>>

\* ------------------------------------------------------------- helpers
\* thotp::encoding::encode / decode with data_encoding::BASE32
Encode(s) == <<"b32", s>>
Decode(e) == e[2]

\* the code thotp computes for a secret at a time step (HMAC, truncated)
Totp(secret, step) == (secret + step) % NumCodes

\* thotp::verify_totp(otp, secret, 0): zero step tolerance
VerifyTotpAnyStep(otp, secret) == \E t \in 0..MaxTime : otp = Totp(secret, t)
VerifyTotp(otp, secret) == otp = Totp(secret, now)

UserRows(u) == {r \in users : r.user_id = u}
Sessions(u) == {r \in authchain : r.user_id = u}
SessionsOf(tok) == {r \in authchain : r.token = tok}
PanelRows(u) == {r \in paneldata : r.user_id = u}

NoBody == <<>>

\* a request (its operation, login token or OAuth identity) and its response
Response(op, tok, ident, status, msg, body) ==
    [op |-> op, token |-> tok, ident |-> ident,
     status |-> status, msg |-> msg, body |-> body]

idleTx == [user |-> "", snap |-> {}, del |-> {}, pd |-> {}, ac |-> {}]

\* no AddFile in flight: its token, destination node, the chunk ids still to
\* fetch, the digest to meet, the temporary file
idleJob == [token |-> 0, final |-> <<>>, rest |-> <<>>, sha512 |-> <<>>, content |-> <<>>]
\* nothing uploaded, written or verified yet
NoHist == [serial |-> [id \in 1..NumChunkIds |-> 0], written |-> <<>>, passed |-> {}]

\* no onboardman command in flight: the command, the user it names and the
\* staff_onboard_state it read
idleCmd == [op |-> "idle", user |-> "", read |-> ""]
\* the roles of the staff server the commands look for (DEV_ROLE,
\* HEAD_DEV_ROLE, STAFF_MAN_ROLE, WEB_MOD_ROLE, OWNER_ROLE)
Developer == "Developer"
HeadDeveloper == "Head Developer"
StaffManager == "Staff Manager"
WebModerator == "Website Moderator"
Owner == "Owner"
\* every user is a member of the staff server and a website moderator
Moderators == [m \in UserIds |-> {WebModerator}]
\* the values of users.staff_onboard_state the commands compare and write
Pending == "pending"
PendingManagerReview == "pending-manager-review"
Denied == "denied"
Completed == "completed"

\* a row of the users table: the user's role flags
UserRow(u, owner, hadmin, iblhdev, admin, staff) ==
    [user_id |-> u, owner |-> owner, hadmin |-> hadmin, iblhdev |-> iblhdev,
     ibldev |-> FALSE, admin |-> admin, staff |-> staff]

\* a node of the CDN tree: nothing there, a directory, or a file's content
Absent == <<"absent">>
Dir == <<"dir">>
File(content) == <<"file", content>>

\* strings are sequences of characters: the names requests use
NameD == <<"d">>
NameF == <<"f">>
\* the paths below the scope's root that requests name, as component lists
Nodes == {<<>>, <<NameD>>, <<NameF>>, <<NameD, NameF>>, <<NameF, NameF>>}

\* the scope's root directory with nothing in it
EmptyTree == [n \in Nodes |-> IF n = <<>> THEN Dir ELSE Absent]

NotSeen == [missing |-> FALSE, overwrite |-> FALSE, dest |-> "", same |-> TRUE]

Init ==
    /\ users = {UserRow(u, FALSE, FALSE, FALSE, FALSE, TRUE) : u \in UserIds}
    /\ authchain = {}
    /\ paneldata = {}
    /\ issued = 0
    /\ now = 0
    /\ resp = Response("none", 0, "", 0, "", NoBody)
    /\ pc = [p \in Procs |-> "idle"]
    /\ tx = [p \in Procs |-> idleTx]
    /\ accepted = [k \in UserIds \X Secrets \X (0..MaxTime) |-> 0]
    /\ rpclog = {}
    /\ cache = {}
    /\ clock = 0
    /\ fs = EmptyTree
    /\ tmp = {}
    /\ drawn = 0
    /\ seen = NotSeen
    /\ job = [p \in Procs |-> idleJob]
    /\ hist = NoHist
    /\ guild = Moderators
    /\ onboard = [u \in UserIds |-> Completed]
    /\ cmd = [p \in Procs |-> idleCmd]

\* ------------------------------------------------- auth helpers (auth.rs)
\* check_auth_insecure: the session rows a token resolves to, any state
CheckAuthInsecure(tok) == SessionsOf(tok)
\* check_auth: only an active session resolves
CheckAuth(tok) == {r \in SessionsOf(tok) : r.state = "active"}

\* --------------------------------------------------- SQL statements
\* DELETE FROM staffpanel__authchain WHERE user_id = $1
DeleteByUserNone(tbl, u) == tbl
DeleteByUser(tbl, u) == {r \in tbl : r.user_id # u}

\* DELETE FROM staffpanel__authchain WHERE token = $1
DeleteByTokenAll(tbl, tok) == {}
DeleteByToken(tbl, tok) == {r \in tbl : r.token # tok}

\* INSERT INTO staffpanel__authchain (user_id, paneldata_ref, token); state DEFAULT 'pending'
NewSession(tok, u) ==
    [token |-> tok, user_id |-> u, paneldata_ref |-> u, state |-> "pending"]

\* INSERT INTO staffpanel__paneldata (user_id, mfa_secret); mfa_verified DEFAULT FALSE
NewPanelData(u, s) ==
    [user_id |-> u, mfa_secret |-> Encode(s), mfa_verified |-> FALSE]

\* UPDATE staffpanel__authchain SET state = 'active' WHERE token = $1
SetActiveNoop(tbl, tok) == tbl
SetActive(tbl, tok) ==
    {IF r.token = tok THEN [r EXCEPT !.state = "active"] ELSE r : r \in tbl}

\* UPDATE staffpanel__paneldata SET mfa_verified = $v WHERE user_id = $1
SetVerified(tbl, u, v) ==
    {IF r.user_id = u THEN [r EXCEPT !.mfa_verified = v] ELSE r : r \in tbl}

\* LoginResetMfa: UPDATE staffpanel__paneldata SET mfa_verified = FALSE WHERE user_id = $1
ResetUnverifySkipped(tbl, u) == tbl
ResetUnverify(tbl, u) == SetVerified(tbl, u, FALSE)

\* UPDATE staffpanel__paneldata SET mfa_secret = $2 WHERE user_id = $1
SetSecretNoop(tbl, u, s) == tbl
SetSecret(tbl, u, s) ==
    {IF r.user_id = u THEN [r EXCEPT !.mfa_secret = Encode(s)] ELSE r : r \in tbl}

\* SELECT staff FROM users WHERE user_id = $1 ... if !rec.staff
IsStaffAlways(u) == TRUE
IsStaff(u) == \A r \in UserRows(u) : r.staff

\* ------------------------------------------------------------ requests
Same == UNCHANGED <<users, authchain, paneldata, issued, now, pc, tx>>

\* the protocol version GetLoginUrl serves, and the versions callers send
LoginVersion == 2
VersionInputs == {LoginVersion - 1, LoginVersion}

\* format!("https://discord.com/api/oauth2/authorize?client_id=..&redirect_uri=..")
AuthorizeUrl(redirect) ==
    <<"https://discord.com/api/oauth2/authorize", "CONFIG.panel.client_id", redirect>>

\* PanelQuery::GetLoginUrl
GetLoginUrl(version, redirect) ==
    /\ IF version # LoginVersion
       THEN resp' = Response("GetLoginUrl", 0, redirect, 400, "Invalid version", NoBody)
       ELSE resp' = Response("GetLoginUrl", 0, redirect, 200, "", AuthorizeUrl(redirect))
    /\ Same

\* PanelQuery::Login up to the staff check: the rejection, or status 200 to go on
LoginCheck(ident, redirect) ==
    IF redirect \notin AllowedRedirects
    THEN [status |-> 400, msg |-> "Invalid redirect url"]
    ELSE IF ident = OauthError
    THEN [status |-> 500, msg |-> "oauth"]
    ELSE IF UserRows(ident) = {}
    THEN [status |-> 500, msg |-> "RowNotFound"]
    ELSE IF ~IsStaff(ident)
    THEN [status |-> 403, msg |-> "You are not staff"]
    ELSE [status |-> 200, msg |-> ""]

\* PanelQuery::Login
Login(ident, redirect) ==
    LET check == LoginCheck(ident, redirect) IN
    IF check.status # 200
    THEN /\ resp' = Response("Login", 0, ident, check.status, check.msg, NoBody)
         /\ Same
    ELSE
        /\ issued < MaxTokens
        /\ LET token == issued + 1 IN
           /\ issued' = token
           /\ authchain' = DeleteByUser(authchain, ident) \cup {NewSession(token, ident)}
           /\ IF PanelRows(ident) = {}
              THEN \E s \in Secrets : paneldata' = paneldata \cup {NewPanelData(ident, s)}
              ELSE paneldata' = paneldata
           /\ resp' = Response("Login", 0, ident, 200, "", <<token>>)
        /\ UNCHANGED <<users, now, pc, tx>>

\* PanelQuery::LoginMfaCheckStatus
LoginMfaCheckStatus(tok) ==
    LET Reply(status, msg, body) ==
            resp' = Response("LoginMfaCheckStatus", tok, "", status, msg, body)
        auth == CheckAuthInsecure(tok)
    IN
    IF auth = {}
    THEN Reply(500, "InvalidOrExpiredToken", NoBody) /\ Same
    ELSE LET auth_data == CHOOSE r \in auth : TRUE
             mrecs == PanelRows(auth_data.user_id)
         IN
         IF auth_data.state # "pending"
         THEN Reply(400, "sessionAlreadyActive", NoBody) /\ Same
         ELSE IF mrecs = {}
         THEN Reply(400, "invalidPanelData", NoBody) /\ Same
         ELSE IF \E m \in mrecs : ~m.mfa_verified
         THEN \E s \in Secrets :
                /\ paneldata' = SetSecret(paneldata, auth_data.user_id, s)
                /\ Reply(200, "", Encode(s))
                /\ UNCHANGED <<users, authchain, issued, now, pc, tx>>
         ELSE Reply(200, "", NoBody) /\ Same

\* PanelQuery::LoginActivateSession
LoginActivateSession(tok, otp) ==
    LET Reply(status, msg, body) ==
            resp' = Response("LoginActivateSession", tok, "", status, msg, body)
        auth == CheckAuthInsecure(tok)
    IN
    IF auth = {}
    THEN Reply(500, "InvalidOrExpiredToken", NoBody) /\ Same
    ELSE LET auth_data == CHOOSE r \in auth : TRUE
             mrecs == PanelRows(auth_data.user_id)
         IN
         IF mrecs = {}
         THEN Reply(400, "mfaNotSetup", NoBody) /\ Same
         ELSE LET secret == Decode((CHOOSE m \in mrecs : TRUE).mfa_secret) IN
              IF ~VerifyTotp(otp, secret)
              THEN Reply(400, "mfaInvalidCode", NoBody) /\ Same
              ELSE /\ authchain' = SetActive(authchain, tok)
                   /\ paneldata' = SetVerified(paneldata, auth_data.user_id, TRUE)
                   /\ Reply(204, "", NoBody)
                   /\ UNCHANGED <<users, issued, now, pc, tx>>

\* PanelQuery::LoginResetMfa
LoginResetMfa(tok, otp) ==
    LET Reply(status, msg, body) ==
            resp' = Response("LoginResetMfa", tok, "", status, msg, body)
        auth == CheckAuth(tok)
    IN
    IF auth = {}
    THEN Reply(500, "InvalidOrExpiredToken", NoBody) /\ Same
    ELSE LET auth_data == CHOOSE r \in auth : TRUE
             mrecs == PanelRows(auth_data.user_id)
         IN
         IF mrecs = {}
         THEN Reply(400, "mfaNotSetup", NoBody) /\ Same
         ELSE LET secret == Decode((CHOOSE m \in mrecs : TRUE).mfa_secret) IN
              IF ~VerifyTotp(otp, secret)
              THEN Reply(400, "mfaInvalidCode", NoBody) /\ Same
              ELSE /\ paneldata' = ResetUnverify(paneldata, auth_data.user_id)
                   /\ authchain' = DeleteByUser(authchain, auth_data.user_id)
                   /\ Reply(204, "", NoBody)
                   /\ UNCHANGED <<users, issued, now, pc, tx>>

\* PanelQuery::Logout
Logout(tok) ==
    /\ authchain' = DeleteByToken(authchain, tok)
    /\ resp' = Response("Logout", tok, "", 200, "",
                        <<Cardinality(SessionsOf(tok))>>)
    /\ UNCHANGED <<users, paneldata, issued, now, pc, tx>>

\* staff_del of the member u by some member: a staff manager or owner is
\* protected unless they name themselves; then
\* UPDATE users SET staff = false, ibldev = false, admin = false WHERE user_id = $1
\* and the member is kicked from the staff server
staff_del(u) ==
    /\ u \in DOMAIN guild
    /\ \E author \in DOMAIN guild : u = author \/ guild[u] \cap {StaffManager, Owner} = {}
    /\ users' = {IF r.user_id = u
                  THEN [r EXCEPT !.staff = FALSE, !.ibldev = FALSE, !.admin = FALSE]
                  ELSE r : r \in users}
    /\ guild' = [m \in DOMAIN guild \ {u} |-> guild[m]]
    /\ UNCHANGED <<authchain, paneldata, issued, now, resp, pc, tx>>

\* the clock moves to the next 30 second TOTP window
Tick ==
    /\ now < MaxTime
    /\ now' = now + 1
    /\ UNCHANGED <<users, authchain, paneldata, issued, resp, pc, tx>>

\* ------------------------------------------- concurrent Login requests
\* Each statement of the Login transaction is a step. A statement sees the
\* rows committed when it starts plus the transaction's own writes; a DELETE
\* that meets a row another open transaction deleted waits for that
\* transaction and then skips the row if it is gone (READ COMMITTED).
InFlight(p) == pc[p] # "idle"
LockedByOther(p, r) == \E q \in Procs \ {p} : InFlight(q) /\ r \in tx[q].del

\* the request arrives: redirect check, OAuth exchange, staff check, pool.begin()
ConcLoginBegin(p, ident, redirect) ==
    /\ pc[p] = "idle"
    /\ LET check == LoginCheck(ident, redirect) IN
       IF check.status # 200
       THEN /\ resp' = Response("Login", 0, ident, check.status, check.msg, NoBody)
            /\ UNCHANGED <<pc, tx>>
       ELSE /\ pc' = [pc EXCEPT ![p] = "delete"]
            /\ tx' = [tx EXCEPT ![p] = [idleTx EXCEPT !.user = ident]]
            /\ UNCHANGED resp
    /\ UNCHANGED <<users, authchain, paneldata, issued, now>>

\* DELETE FROM staffpanel__authchain WHERE user_id = $1 starts: its snapshot
ConcLoginDeleteScan(p) ==
    /\ pc[p] = "delete"
    /\ tx' = [tx EXCEPT ![p].snap = Sessions(tx[p].user)]
    /\ pc' = [pc EXCEPT ![p] = "delete_lock"]
    /\ UNCHANGED <<users, authchain, paneldata, issued, now, resp>>

\* ... and deletes the rows of its snapshot that still exist, once unlocked
ConcLoginDelete(p) ==
    /\ pc[p] = "delete_lock"
    /\ \A r \in tx[p].snap \cap authchain : ~LockedByOther(p, r)
    /\ tx' = [tx EXCEPT ![p].del = tx[p].snap \cap authchain]
    /\ pc' = [pc EXCEPT ![p] = "count"]
    /\ UNCHANGED <<users, authchain, paneldata, issued, now, resp>>

\* SELECT COUNT(*) FROM staffpanel__paneldata WHERE user_id = $1
ConcLoginCount(p) ==
    /\ pc[p] = "count"
    /\ pc' = [pc EXCEPT ![p] =
                IF PanelRows(tx[p].user) = {} THEN "paneldata" ELSE "insert"]
    /\ UNCHANGED <<users, authchain, paneldata, issued, now, resp, tx>>

\* INSERT INTO staffpanel__paneldata: waits for an open insert of the same
\* primary key; a committed row with that key is a unique violation, the
\* error drops the transaction (rollback)
ConcLoginPanelData(p) ==
    /\ pc[p] = "paneldata"
    /\ ~\E q \in Procs \ {p} : InFlight(q) /\ tx[q].user = tx[p].user /\ tx[q].pd # {}
    /\ IF PanelRows(tx[p].user) # {}
       THEN /\ pc' = [pc EXCEPT ![p] = "idle"]
            /\ tx' = [tx EXCEPT ![p] = idleTx]
            /\ resp' = Response("Login", 0, tx[p].user, 500, "duplicate key", NoBody)
       ELSE /\ \E s \in Secrets :
                 tx' = [tx EXCEPT ![p].pd = {NewPanelData(tx[p].user, s)}]
            /\ pc' = [pc EXCEPT ![p] = "insert"]
            /\ UNCHANGED resp
    /\ UNCHANGED <<users, authchain, paneldata, issued, now>>

\* INSERT INTO staffpanel__authchain (user_id, paneldata_ref, token)
ConcLoginInsert(p) ==
    /\ pc[p] = "insert"
    /\ issued < MaxTokens
    /\ issued' = issued + 1
    /\ tx' = [tx EXCEPT ![p].ac = {NewSession(issued + 1, tx[p].user)}]
    /\ pc' = [pc EXCEPT ![p] = "commit"]
    /\ UNCHANGED <<users, authchain, paneldata, now, resp>>

\* tx.commit() and the reply with the token
ConcLoginCommit(p) ==
    /\ pc[p] = "commit"
    /\ authchain' = (authchain \ tx[p].del) \cup tx[p].ac
    /\ paneldata' = paneldata \cup tx[p].pd
    /\ resp' = Response("Login", 0, tx[p].user, 200, "",
                        <<(CHOOSE r \in tx[p].ac : TRUE).token>>)
    /\ pc' = [pc EXCEPT ![p] = "idle"]
    /\ tx' = [tx EXCEPT ![p] = idleTx]
    /\ UNCHANGED <<users, issued, now>>

\* Logout beside open transactions: its DELETE waits for a locked row
ConcLogout(tok) ==
    /\ \A r \in SessionsOf(tok) : \A p \in Procs : ~LockedByOther(p, r)
    /\ Logout(tok)

\* ------------------------------------------------------- RPC dispatcher
\* crate::rpc::core::RPCPerms and its order Owner > Head > Admin > Staff
RPCPerms == {"Owner", "Head", "Admin", "Staff"}
TierRank(t) ==
    CASE t = "Owner" -> 4 [] t = "Head" -> 3 [] t = "Admin" -> 2 [] t = "Staff" -> 1

\* RPCMethod::VARIANTS and RPCMethod::needs_perms: a method of every tier
RPCMethods == {"OwnerMethod", "HeadMethod", "AdminMethod", "StaffMethod"}
needs_perms(m) ==
    CASE m = "OwnerMethod" -> "Owner" [] m = "HeadMethod" -> "Head"
      [] m = "AdminMethod" -> "Admin" [] m = "StaffMethod" -> "Staff"

\* (owner, head, admin, staff) of the caller's users row, head being
\* hadmin || iblhdev, and the flag each tier is matched with
HasPermAny(row, t) == TRUE
HasPerm(row, t) ==
    CASE t = "Owner" -> row.owner
      [] t = "Head" -> row.hadmin \/ row.iblhdev
      [] t = "Admin" -> row.admin
      [] t = "Staff" -> row.staff

\* the caller's tier: the highest tier whose flag is set, 0 without any flag
DerivedTier(row) ==
    IF row.owner THEN TierRank("Owner")
    ELSE IF row.hadmin \/ row.iblhdev THEN TierRank("Head")
    ELSE IF row.admin THEN TierRank("Admin")
    ELSE IF row.staff THEN TierRank("Staff")
    ELSE 0

\* auth.rs, capability derivation: RPC and CDN management need at least
\* admin, the bot queue needs staff
Capabilities(row) ==
    (IF DerivedTier(row) >= TierRank("Staff") THEN {"ViewBotQueue"} ELSE {})
    \cup (IF DerivedTier(row) >= TierRank("Admin")
          THEN {"Rpc", "CdnManagement"} ELSE {})

\* auth.rs get_capabilities: check_auth, then the capabilities of the user's row
get_capabilities(tok) ==
    IF CheckAuth(tok) = {} \/ \A r \in CheckAuth(tok) : UserRows(r.user_id) = {}
    THEN [ok |-> FALSE, caps |-> {}]
    ELSE LET auth_data == CHOOSE r \in CheckAuth(tok) : TRUE IN
         [ok |-> TRUE,
          caps |-> Capabilities(CHOOSE r \in UserRows(auth_data.user_id) : TRUE)]

\* caps.contains(&Capability::..)
CapsContainAny(caps, cap) == TRUE
CapsContain(caps, cap) == cap \in caps

\* RPCMethod::handle: what a method's handler can answer for a caller. It
\* re-validates the method's tier against the caller's role flags and applies
\* its changes only when it succeeds.
handle(method, row) ==
    IF DerivedTier(row) < TierRank(needs_perms(method))
    THEN {[result |-> "Err", msg |-> "You do not have permission to use this method",
           applied |-> FALSE]}
    ELSE {[result |-> "NoContent", msg |-> "", applied |-> TRUE],
          [result |-> "Content", msg |-> "", applied |-> TRUE],
          [result |-> "Err", msg |-> "method failed", applied |-> FALSE]}

\* match resp { Ok(NoContent) => 204, Ok(Content(c)) => 200, Err(e) => 400 }
RpcReplyNoContent(out) == [status |-> 204, msg |-> "", body |-> NoBody]
RpcReply(out) ==
    CASE out.result = "NoContent" -> [status |-> 204, msg |-> "", body |-> NoBody]
      [] out.result = "Content" -> [status |-> 200, msg |-> "", body |-> <<"content">>]
      [] out.result = "Err" -> [status |-> 400, msg |-> out.msg, body |-> NoBody]

NoRpc == "You do not have permission to use RPC right now"

\* PanelQuery::ExecuteRpc
ExecuteRpc(tok, method) ==
    LET Reply(status, msg, body) ==
            resp' = Response("ExecuteRpc", tok, method, status, msg, body)
        caps == get_capabilities(tok)
    IN
    /\ IF ~caps.ok
       THEN Reply(500, "InvalidOrExpiredToken", NoBody) /\ UNCHANGED rpclog
       ELSE IF ~CapsContain(caps.caps, "Rpc")
       THEN Reply(403, NoRpc, NoBody) /\ UNCHANGED rpclog
       ELSE IF CheckAuth(tok) = {}
       THEN Reply(500, "InvalidOrExpiredToken", NoBody) /\ UNCHANGED rpclog
       ELSE LET auth_data == CHOOSE r \in CheckAuth(tok) : TRUE
                row == CHOOSE r \in UserRows(auth_data.user_id) : TRUE
            IN
            \E out \in handle(method, row) :
                /\ rpclog' = IF out.applied
                             THEN rpclog \cup {[user_id |-> auth_data.user_id,
                                                method |-> method]}
                             ELSE rpclog
                /\ LET r == RpcReply(out) IN Reply(r.status, r.msg, r.body)
    /\ Same

\* PanelQuery::GetRpcMethods
GetRpcMethods(tok, filtered) ==
    LET Reply(status, msg, body) ==
            resp' = Response("GetRpcMethods", tok,
                             IF filtered THEN "filtered" ELSE "unfiltered",
                             status, msg, body)
        caps == get_capabilities(tok)
    IN
    /\ IF ~caps.ok
       THEN Reply(500, "InvalidOrExpiredToken", NoBody)
       ELSE IF ~CapsContain(caps.caps, "Rpc")
       THEN Reply(403, NoRpc, NoBody)
       ELSE IF CheckAuth(tok) = {}
       THEN Reply(500, "InvalidOrExpiredToken", NoBody)
       ELSE LET auth_data == CHOOSE r \in CheckAuth(tok) : TRUE
                row == CHOOSE r \in UserRows(auth_data.user_id) : TRUE
            IN
            Reply(200, "", <<{m \in RPCMethods :
                                filtered => HasPerm(row, needs_perms(m))}>>)
    /\ Same
    /\ UNCHANGED rpclog

\* ---------------------------------------------------------- chunk cache
\* the strings gen_random(32) returns
ChunkIds == 1..NumChunkIds

\* the limits of UploadCdnFileChunk and the cache's time_to_live, in seconds
MaxChunkSize == 100000000
MaxTries == 10
ChunkTtl == 3600

\* a chunk (Vec<u8>) is <<n, b>>: n bytes of value b
ChunkLen(chunk) == chunk[1]
ChunkInputs ==
    {<<0, "a">>, <<1, "a">>, <<MaxChunkSize, "b">>, <<MaxChunkSize + 1, "b">>}

\* moka: an entry is gone once its time to live has passed since the insert
Expired(e, t) == t - e.at >= ChunkTtl
\* the live entries of a key, cdn_file_chunks_cache.contains_key
Live(c, id) == {e \in c : e.id = id /\ ~Expired(e, clock)}
ContainsKey(id) == Live(cache, id) # {}
\* cdn_file_chunks_cache.insert / remove
Insert(c, id, chunk) ==
    {e \in c : e.id # id} \cup {[id |-> id, chunk |-> chunk, at |-> clock]}
RemoveNone(c, id) == c
Remove(c, id) == {e \in c : e.id # id}

\* chunk.len() > 100_000_000
TooLargeFrom(chunk) == ChunkLen(chunk) >= MaxChunkSize
TooLarge(chunk) == ChunkLen(chunk) > MaxChunkSize

\* while tries < 10 { if !contains_key(&chunk_id) { .. return } tries += 1 }:
\* the number of failed tries when the loop ends, the id being the same in each
RECURSIVE UploadTries(_, _)
UploadTries(id, tries) ==
    IF tries < MaxTries /\ ContainsKey(id)
    THEN UploadTries(id, tries + 1)
    ELSE tries

NoCdn == "You do not have permission to manage the CDN right now?"

\* PanelQuery::UploadCdnFileChunk; id is what gen_random(32) returns
UploadCdnFileChunk(tok, chunk, id) ==
    LET Reply(status, msg, body) ==
            resp' = Response("UploadCdnFileChunk", tok, "", status, msg, body)
        caps == get_capabilities(tok)
    IN
    /\ IF ~caps.ok
       THEN Reply(500, "InvalidOrExpiredToken", NoBody) /\ cache' = cache /\ drawn' = 0
       ELSE IF ~CapsContain(caps.caps, "CdnManagement")
       THEN Reply(403, NoCdn, NoBody) /\ cache' = cache /\ drawn' = 0
       ELSE IF TooLarge(chunk)
       THEN Reply(400, "Chunk size is too large", NoBody) /\ cache' = cache /\ drawn' = 0
       ELSE IF ChunkLen(chunk) = 0
       THEN Reply(400, "Chunk is empty", NoBody) /\ cache' = cache /\ drawn' = 0
       ELSE /\ drawn' = 1
            /\ IF UploadTries(id, 0) < MaxTries
               THEN cache' = Insert(cache, id, chunk) /\ Reply(200, "", <<id>>)
               ELSE cache' = cache /\ Reply(500, "Failed to generate a chunk ID", NoBody)
    /\ Same
    /\ UNCHANGED <<rpclog, clock, fs, tmp>>

\* time passes; the cache drops the entries whose time to live is over
Elapse ==
    /\ clock < MaxTicks * ClockStep
    /\ clock' = clock + ClockStep
    /\ cache' = {e \in cache : ~Expired(e, clock')}
    /\ UNCHANGED <<users, authchain, paneldata, issued, now, resp, pc, tx>>
    /\ UNCHANGED <<rpclog, fs, tmp, drawn>>

\* ----------------------------------------------------------- CDN assets
\* CONFIG.panel.cdn_scopes, and the scopes callers name
CdnScopes == {"main"}
ScopeInputs == CdnScopes \cup {"nowhere"}

\* the letters of the names in use, and ALLOWED_CHARS of names and of paths
Letters == {"d", "f"}
NameChars ==
    Letters \cup {"-", "_", ".", ":", "%", "$", "[", "]", "(", ")", "{", "}", "@", "!", " "}
PathChars == Letters \cup {"-", "_", ".", ":", "%", "$", "/", " "}

\* str.contains(a two character pattern), str.contains(char)
ContainsPair(str, a, b) == \E i \in 1..(Len(str) - 1) : str[i] = a /\ str[i + 1] = b
ContainsChar(str, a) == \E i \in 1..Len(str) : str[i] = a

\* fn validate_name
validate_name_chars(name) == \A i \in 1..Len(name) : name[i] \in NameChars
validate_name(name) ==
    ~ \/ \E i \in 1..Len(name) : name[i] \notin NameChars
      \/ ContainsChar(name, "/")
      \/ ContainsChar(name, "\\")
      \/ (Len(name) > 0 /\ name[1] = ".")

\* fn validate_path
validate_path_chars(path) == \A i \in 1..Len(path) : path[i] \in PathChars
validate_path(path) ==
    ~ \/ \E i \in 1..Len(path) : path[i] \notin PathChars
      \/ ContainsPair(path, ".", ".")
      \/ ContainsPair(path, "/", "/")
      \/ ContainsChar(path, "\\")
      \/ (Len(path) > 0 /\ path[1] = "/")

\* asset_path and asset_final_path, relative to the scope's root
asset_path(path) == path
asset_final_path(path, name) ==
    IF name = <<>> THEN asset_path(path)
    ELSE IF path = <<>> THEN name
    ELSE path \o <<"/">> \o name

\* the components of a path string as the file system reads it: split at
\* "/", empty components and "." dropped
RECURSIVE Components(_, _, _)
Components(str, cur, acc) ==
    LET done == IF cur = <<>> \/ cur = <<".">> THEN acc ELSE Append(acc, cur) IN
    IF str = <<>> THEN done
    ELSE IF Head(str) = "/" THEN Components(Tail(str), <<>>, done)
    ELSE Components(Tail(str), Append(cur, Head(str)), acc)
Resolve(str) == Components(str, <<>>, <<>>)

\* what is at a node
Kind(tree, node) == IF node \in DOMAIN tree THEN tree[node] ELSE Absent
IsFile(k) == k[1] = "file"

\* std::fs::metadata: Ok with the node's kind, NotFound, or NotADirectory
\* when a file stands where a directory of the path is needed
metadata(tree, node) ==
    IF \E k \in 0..(Len(node) - 1) : IsFile(Kind(tree, SubSeq(node, 1, k)))
    THEN "NotADirectory"
    ELSE IF \E k \in 0..Len(node) : Kind(tree, SubSeq(node, 1, k)) = Absent
    THEN "NotFound"
    ELSE IF Kind(tree, node) = Dir THEN "dir" ELSE "file"

\* DirBuilder::new().recursive(true).create
CreateDirAll(tree, node) ==
    [n \in DOMAIN tree |->
        IF \E k \in 0..Len(node) : n = SubSeq(node, 1, k) THEN Dir ELSE tree[n]]

\* std::fs::remove_dir_all, remove_file: the node and all below it are gone
IsPrefix(a, b) == Len(a) <= Len(b) /\ SubSeq(b, 1, Len(a)) = a
RemoveAll(tree, node) ==
    [n \in DOMAIN tree |-> IF IsPrefix(node, n) THEN Absent ELSE tree[n]]

\* std::fs::read_dir: the entries of a directory
Entries(tree, node) ==
    {n \in DOMAIN tree : Len(n) = Len(node) + 1 /\ IsPrefix(node, n) /\ tree[n] # Absent}

\* write_all: the file's bytes followed by the chunk's, as runs of equal bytes
ConcatFirst(content, chunk) == IF content = <<>> THEN <<chunk>> ELSE content
Concat(content, chunk) ==
    IF content # <<>> /\ content[Len(content)][2] = chunk[2]
    THEN [content EXCEPT ![Len(content)] = <<@[1] + ChunkLen(chunk), chunk[2]>>]
    ELSE Append(content, chunk)

\* data_encoding::HEXLOWER.encode(Sha512 of the content)
Sha512Hex(content) == <<"sha512", content>>

\* for chunk in chunks { cache.remove(&chunk).ok_or_else(..)?; write_all }:
\* the cache and the temporary file when the loop ends or fails
RECURSIVE Assemble(_, _, _)
Assemble(chunks, c, content) ==
    IF chunks = <<>> THEN [ok |-> TRUE, cache |-> c, content |-> content]
    ELSE IF Live(c, Head(chunks)) = {}
    THEN [ok |-> FALSE, cache |-> c, content |-> content]
    ELSE Assemble(Tail(chunks), Remove(c, Head(chunks)),
                  Concat(content, (CHOOSE e \in Live(c, Head(chunks)) : TRUE).chunk))

\* chunks.len() > 100_000
MaxChunks == 100000

\* for chunk in &chunks { if !contains_key(chunk) { return .. } }
AllPresentHead(chunks) == ContainsKey(Head(chunks))
AllPresent(chunks) == \A i \in 1..Len(chunks) : ContainsKey(chunks[i])

\* UpdateCdnAsset before it looks at the action: capability, scope, name, path
CdnCheck(tok, scope, name, path) ==
    LET caps == get_capabilities(tok) IN
    IF ~caps.ok
    THEN [status |-> 500, msg |-> "InvalidOrExpiredToken"]
    ELSE IF ~CapsContain(caps.caps, "CdnManagement")
    THEN [status |-> 403, msg |-> NoCdn]
    ELSE IF scope \notin CdnScopes
    THEN [status |-> 400, msg |-> "Invalid CDN scope"]
    ELSE IF ~validate_name(name)
    THEN [status |-> 500, msg |-> "Asset name cannot contain disallowed characters"]
    ELSE IF ~validate_path(path)
    THEN [status |-> 500, msg |-> "Asset path cannot contain non-ASCII characters"]
    ELSE [status |-> 200, msg |-> ""]

MetadataFailed == "Fetching asset metadata failed due to unknown error"

\* match std::fs::metadata(&asset_final_path): the refusal, or "" to go on
DestCheckReplace(m, overwrite) ==
    CASE m = "dir" -> "Asset to be replaced is a directory"
      [] m = "NotADirectory" -> MetadataFailed
      [] OTHER -> ""
DestCheck(m, overwrite) ==
    CASE m \in {"dir", "file"} /\ ~overwrite -> "Asset already exists"
      [] m = "dir" /\ overwrite -> "Asset to be replaced is a directory"
      [] m = "NotADirectory" -> MetadataFailed
      [] OTHER -> ""

\* match std::fs::metadata(&asset_path): the refusal, or "" to go on
ParentCheck(m) ==
    CASE m = "file" -> "Asset path already exists and is not a directory"
      [] m = "NotADirectory" -> MetadataFailed
      [] OTHER -> ""

\* PanelQuery::UpdateCdnAsset with CdnAssetAction::AddFile
AddFile(tok, scope, name, path, overwrite, chunks, sha512) ==
    LET Reply(status, msg) == resp' = Response("AddFile", tok, "", status, msg, NoBody)
        Nothing == UNCHANGED <<cache, fs, tmp>>
        check == CdnCheck(tok, scope, name, path)
        final == Resolve(asset_final_path(path, name))
        parent == Resolve(asset_path(path))
    IN
    /\ IF check.status # 200
       THEN Reply(check.status, check.msg) /\ Nothing
       ELSE IF chunks = <<>>
       THEN Reply(400, "No chunks were provided") /\ Nothing
       ELSE IF Len(chunks) > MaxChunks
       THEN Reply(400, "Too many chunks were provided") /\ Nothing
       ELSE IF ~AllPresent(chunks)
       THEN Reply(400, "Chunk does not exist") /\ Nothing
       ELSE IF DestCheck(metadata(fs, final), overwrite) # ""
       THEN Reply(400, DestCheck(metadata(fs, final), overwrite)) /\ Nothing
       ELSE IF ParentCheck(metadata(fs, parent)) # ""
       THEN Reply(400, ParentCheck(metadata(fs, parent))) /\ Nothing
       ELSE LET made == IF metadata(fs, parent) = "NotFound"
                        THEN CreateDirAll(fs, parent) ELSE fs
                asm == Assemble(chunks, cache, <<>>)
            IN
            /\ cache' = asm.cache
            /\ IF ~asm.ok
               THEN /\ Reply(500, "Chunk id does not exist")
                    /\ fs' = made /\ tmp' = tmp \cup {asm.content}
               ELSE IF sha512 # Sha512Hex(asm.content)
               THEN /\ Reply(400, "SHA512 hash does not match")
                    /\ fs' = made /\ tmp' = tmp \cup {asm.content}
               ELSE IF Kind(made, final) = Dir
               THEN /\ Reply(500, "Is a directory")
                    /\ fs' = made /\ tmp' = tmp \cup {asm.content}
               ELSE /\ Reply(204, "")
                    /\ fs' = [made EXCEPT ![final] = File(asm.content)]
                    /\ tmp' = tmp
    /\ Same
    /\ UNCHANGED <<rpclog, clock, drawn>>

\* the bytes of a sequence of runs, one by one
RECURSIVE Bytes(_)
Bytes(runs) ==
    IF runs = <<>> THEN <<>>
    ELSE [i \in 1..Head(runs)[1] |-> Head(runs)[2]] \o Bytes(Tail(runs))

\* ... and the runs of a sequence of bytes
RECURSIVE Runs(_)
Runs(bytes) ==
    IF bytes = <<>> THEN <<>>
    ELSE Concat(Runs(SubSeq(bytes, 1, Len(bytes) - 1)), <<1, bytes[Len(bytes)]>>)

\* --------------------------------------- AddFile, statement by statement
\* what a step of an AddFile request leaves alone
Held == UNCHANGED <<users, authchain, paneldata, issued, now, tx, rpclog, clock, drawn>>

\* a process, and both of them, back at rest
Rest(p) == pc' = [pc EXCEPT ![p] = "idle"] /\ job' = [job EXCEPT ![p] = idleJob]

\* the checks of AddFile before it creates anything: the refusal, or status 200
Precheck(tok, scope, name, path, overwrite, chunks) ==
    LET check == CdnCheck(tok, scope, name, path)
        bad(msg) == [status |-> 400, msg |-> msg]
        dest == DestCheck(metadata(fs, Resolve(asset_final_path(path, name))), overwrite)
        par == ParentCheck(metadata(fs, Resolve(asset_path(path))))
    IN
    IF check.status # 200 THEN check
    ELSE IF chunks = <<>> THEN bad("No chunks were provided")
    ELSE IF Len(chunks) > MaxChunks THEN bad("Too many chunks were provided")
    ELSE IF ~AllPresent(chunks) THEN bad("Chunk does not exist")
    ELSE IF dest # "" THEN bad(dest)
    ELSE IF par # "" THEN bad(par)
    ELSE check

\* AddFile up to File::create of the temporary file
AddFileCheck(p, tok, scope, name, path, overwrite, chunks, sha512) ==
    LET pre == Precheck(tok, scope, name, path, overwrite, chunks)
        parent == Resolve(asset_path(path))
    IN
    /\ pc[p] = "idle"
    /\ IF pre.status # 200
       THEN /\ resp' = Response("AddFile", tok, "", pre.status, pre.msg, NoBody)
            /\ UNCHANGED <<fs, pc, job>>
       ELSE /\ fs' = IF metadata(fs, parent) = "NotFound"
                     THEN CreateDirAll(fs, parent) ELSE fs
            /\ pc' = [pc EXCEPT ![p] = "fetch"]
            /\ job' = [job EXCEPT ![p] =
                          [token |-> tok,
                           final |-> Resolve(asset_final_path(path, name)),
                           rest |-> chunks, sha512 |-> sha512, content |-> <<>>]]
            /\ UNCHANGED resp
    /\ UNCHANGED <<cache, tmp, hist>>
    /\ Held

\* one turn of the loop: cache.remove(&chunk) and write_all
AddFileFetch(p) ==
    LET id == Head(job[p].rest)
        k == <<id, hist.serial[id]>>
    IN
    /\ pc[p] = "fetch" /\ job[p].rest # <<>>
    /\ IF Live(cache, id) = {}
       THEN /\ resp' = Response("AddFile", job[p].token, "", 500,
                                "Chunk id does not exist", NoBody)
            /\ tmp' = tmp \cup {job[p].content}
            /\ Rest(p)
            /\ UNCHANGED <<cache, hist>>
       ELSE /\ cache' = Remove(cache, id)
            /\ job' = [job EXCEPT ![p].rest = Tail(@),
                                  ![p].content =
                                      Concat(@, (CHOOSE e \in Live(cache, id) : TRUE).chunk)]
            /\ hist' = [hist EXCEPT !.written =
                            IF k \in DOMAIN @ THEN [@ EXCEPT ![k] = @ + 1]
                            ELSE @ @@ (k :> 1)]
            /\ UNCHANGED <<resp, pc, tmp>>
    /\ UNCHANGED fs
    /\ Held

\* after the loop: the digest of the temporary file against the one supplied
AddFileHash(p) ==
    /\ pc[p] = "fetch" /\ job[p].rest = <<>>
    /\ IF job[p].sha512 # Sha512Hex(job[p].content)
       THEN /\ resp' = Response("AddFile", job[p].token, "", 400,
                                "SHA512 hash does not match", NoBody)
            /\ tmp' = tmp \cup {job[p].content}
            /\ Rest(p)
            /\ UNCHANGED hist
       ELSE /\ pc' = [pc EXCEPT ![p] = "copy"]
            /\ hist' = [hist EXCEPT !.passed = @ \cup {job[p].content}]
            /\ UNCHANGED <<resp, tmp, job>>
    /\ UNCHANGED <<cache, fs>>
    /\ Held

\* tokio::fs::copy, first half: the destination is opened for writing,
\* created or cut to length 0
AddFileCopyOpen(p) ==
    /\ pc[p] = "copy"
    /\ IF Kind(fs, job[p].final) = Dir
       THEN /\ resp' = Response("AddFile", job[p].token, "", 500, "Is a directory", NoBody)
            /\ tmp' = tmp \cup {job[p].content}
            /\ Rest(p)
            /\ UNCHANGED fs
       ELSE /\ fs' = [fs EXCEPT ![job[p].final] = File(<<>>)]
            /\ pc' = [pc EXCEPT ![p] = "write"]
            /\ UNCHANGED <<resp, tmp, job>>
    /\ UNCHANGED <<cache, hist>>
    /\ Held

\* a write of content at offset 0 of a file that holds old
WriteOver(content, old) ==
    Runs(Bytes(content) \o SubSeq(Bytes(old), Len(Bytes(content)) + 1, Len(Bytes(old))))

\* tokio::fs::copy, second half: the bytes of the temporary file are written
AddFileCopyData(p) ==
    /\ pc[p] = "write"
    /\ fs' = [fs EXCEPT ![job[p].final] = File(WriteOver(job[p].content, @[2]))]
    /\ pc' = [pc EXCEPT ![p] = "unlink"]
    /\ UNCHANGED <<resp, cache, tmp, job, hist>>
    /\ Held

\* tokio::fs::remove_file of the temporary file, and the answer
AddFileUnlink(p) ==
    /\ pc[p] = "unlink"
    /\ resp' = Response("AddFile", job[p].token, "", 204, "", NoBody)
    /\ Rest(p)
    /\ UNCHANGED <<cache, fs, tmp, hist>>
    /\ Held

\* the server dies with requests in flight and is started again: the chunk
\* cache (memory) is empty, the files on disk are as they were
Crash ==
    /\ \E p \in Procs : pc[p] # "idle"
    /\ pc' = [p \in Procs |-> "idle"]
    /\ job' = [p \in Procs |-> idleJob]
    /\ cache' = {}
    /\ tmp' = tmp \cup {job[p].content : p \in {q \in Procs : pc[q] # "idle"}}
    /\ UNCHANGED <<resp, fs, hist>>
    /\ Held

\* PanelQuery::UpdateCdnAsset with CdnAssetAction::ListPath
ListPath(tok, scope, name, path) ==
    LET Reply(status, msg, body) == resp' = Response("ListPath", tok, "", status, msg, body)
        check == CdnCheck(tok, scope, name, path)
        dir == Resolve(asset_path(path))
    IN
    /\ IF check.status # 200
       THEN Reply(check.status, check.msg, NoBody)
       ELSE IF metadata(fs, dir) = "file"
       THEN Reply(400, "Asset path already exists and is not a directory", NoBody)
       ELSE IF metadata(fs, dir) # "dir"
       THEN Reply(400, "Fetching asset metadata failed", NoBody)
       ELSE Reply(200, "", <<{[name |-> n[Len(n)], is_dir |-> fs[n] = Dir] :
                                n \in Entries(fs, dir)}>>)
    /\ UNCHANGED <<cache, fs, tmp>>
    /\ Same
    /\ UNCHANGED <<rpclog, clock, drawn>>

\* PanelQuery::UpdateCdnAsset with CdnAssetAction::CreateFolder
CreateFolder(tok, scope, name, path) ==
    LET Reply(status, msg) == resp' = Response("CreateFolder", tok, "", status, msg, NoBody)
        check == CdnCheck(tok, scope, name, path)
        final == Resolve(asset_final_path(path, name))
    IN
    /\ IF check.status # 200
       THEN Reply(check.status, check.msg) /\ UNCHANGED fs
       ELSE IF metadata(fs, final) \in {"dir", "file"}
       THEN Reply(400, "Asset path already exists") /\ UNCHANGED fs
       ELSE IF metadata(fs, final) # "NotFound"
       THEN Reply(400, MetadataFailed) /\ UNCHANGED fs
       ELSE Reply(204, "") /\ fs' = CreateDirAll(fs, final)
    /\ UNCHANGED <<cache, tmp>>
    /\ Same
    /\ UNCHANGED <<rpclog, clock, drawn>>

\* PanelQuery::UpdateCdnAsset with CdnAssetAction::Delete
Delete(tok, scope, name, path) ==
    LET Reply(status, msg) == resp' = Response("Delete", tok, "", status, msg, NoBody)
        check == CdnCheck(tok, scope, name, path)
        final == Resolve(asset_final_path(path, name))
    IN
    /\ IF check.status # 200
       THEN Reply(check.status, check.msg) /\ UNCHANGED fs
       ELSE IF metadata(fs, final) \notin {"dir", "file"}
       THEN Reply(400, "Could not find asset") /\ UNCHANGED fs
       ELSE Reply(204, "") /\ fs' = RemoveAll(fs, final)
    /\ UNCHANGED <<cache, tmp>>
    /\ Same
    /\ UNCHANGED <<rpclog, clock, drawn>>

\* std::fs::rename (move) or std::fs::copy of the file src to dst: [ok, tree];
\* a copy of a file onto itself cuts it to length 0
CopyOne(tree, src, dst, move) ==
    IF dst \notin DOMAIN tree \/ Kind(tree, dst) = Dir
    THEN [ok |-> FALSE, tree |-> tree]
    ELSE IF metadata(tree, SubSeq(dst, 1, Len(dst) - 1)) # "dir"
    THEN [ok |-> FALSE, tree |-> tree]
    ELSE IF src = dst
    THEN [ok |-> TRUE, tree |-> IF move THEN tree ELSE [tree EXCEPT ![dst] = File(<<>>)]]
    ELSE [ok |-> TRUE,
          tree |-> [tree EXCEPT ![dst] = tree[src],
                                ![src] = IF move THEN Absent ELSE @]]

\* fn rename_dir_all (move) and fn copy_dir_all: [ok, tree]; with dst inside
\* src the recursion ends with an error, the tree as far as it is modelled
RECURSIVE CopyDirAll(_, _, _, _)
RECURSIVE CopyEntries(_, _, _, _)
CopyDirAll(tree, src, dst, move) ==
    IF metadata(tree, dst) \in {"file", "NotADirectory"}
    THEN [ok |-> FALSE, tree |-> tree]
    ELSE IF src # dst /\ IsPrefix(src, dst)
    THEN [ok |-> FALSE, tree |-> CreateDirAll(tree, dst)]
    ELSE CopyEntries(CreateDirAll(tree, dst), Entries(CreateDirAll(tree, dst), src),
                     dst, move)
CopyEntries(tree, es, dst, move) ==
    IF es = {} THEN [ok |-> TRUE, tree |-> tree]
    ELSE LET e == CHOOSE x \in es : TRUE
             to == Append(dst, e[Len(e)])
             one == IF tree[e] = Dir THEN CopyDirAll(tree, e, to, move)
                    ELSE CopyOne(tree, e, to, move)
         IN
         IF one.ok THEN CopyEntries(one.tree, es \ {e}, dst, move) ELSE one

\* PanelQuery::UpdateCdnAsset with CdnAssetAction::CopyFile
CopyFile(tok, scope, name, path, overwrite, delete_original, copy_to) ==
    LET Reply(status, msg) == resp' = Response("CopyFile", tok, "", status, msg, NoBody)
        check == CdnCheck(tok, scope, name, path)
        final == Resolve(asset_final_path(path, name))
        dst == Resolve(copy_to)
        res == IF metadata(fs, final) = "file"
               THEN CopyOne(fs, final, dst, delete_original)
               ELSE CopyDirAll(fs, final, dst, delete_original)
    IN
    /\ IF check.status # 200
       THEN Reply(check.status, check.msg) /\ UNCHANGED fs
       ELSE IF ~validate_path(copy_to)
       THEN Reply(500, "Asset path cannot contain non-ASCII characters") /\ UNCHANGED fs
       ELSE IF copy_to = <<>>
       THEN Reply(400, "copy_to location cannot be empty") /\ UNCHANGED fs
       ELSE IF metadata(fs, dst) = "file" /\ ~overwrite
       THEN Reply(400, "copy_to location already exists") /\ UNCHANGED fs
       ELSE IF metadata(fs, dst) = "NotADirectory"
       THEN Reply(400, MetadataFailed) /\ UNCHANGED fs
       ELSE IF metadata(fs, final) \notin {"dir", "file"}
       THEN Reply(400, "Could not find asset") /\ UNCHANGED fs
       ELSE IF ~res.ok
       THEN Reply(500, "Failed to copy or rename") /\ fs' = res.tree
       ELSE /\ Reply(204, "")
            /\ fs' = IF metadata(fs, final) = "dir" /\ delete_original
                     THEN RemoveAll(res.tree, final) ELSE res.tree
    /\ UNCHANGED <<cache, tmp>>
    /\ Same
    /\ UNCHANGED <<rpclog, clock, drawn>>

\* PanelQuery::UpdateCdnAsset with CdnAssetAction::ReadFile
ReadFile(tok, scope, name, path) ==
    LET Reply(status, msg, body) == resp' = Response("ReadFile", tok, "", status, msg, body)
        check == CdnCheck(tok, scope, name, path)
        final == Resolve(asset_final_path(path, name))
    IN
    /\ IF check.status # 200
       THEN Reply(check.status, check.msg, NoBody)
       ELSE IF metadata(fs, final) = "dir"
       THEN Reply(400, "Asset path is not a file", NoBody)
       ELSE IF metadata(fs, final) # "file"
       THEN Reply(400, "Fetching asset metadata failed", NoBody)
       ELSE Reply(200, "", <<fs[final][2]>>)
    /\ UNCHANGED <<cache, fs, tmp>>
    /\ Same
    /\ UNCHANGED <<rpclog, clock, drawn>>

\* PanelQuery::UpdateCdnAsset: match action
UpdateCdnAsset(tok, scope, name, path, action) ==
    CASE action.kind = "ListPath" -> ListPath(tok, scope, name, path)
      [] action.kind = "ReadFile" -> ReadFile(tok, scope, name, path)
      [] action.kind = "CreateFolder" -> CreateFolder(tok, scope, name, path)
      [] action.kind = "AddFile" ->
            AddFile(tok, scope, name, path, action.overwrite, action.chunks, action.sha512)
      [] action.kind = "CopyFile" ->
            CopyFile(tok, scope, name, path, action.overwrite, action.delete_original,
                     action.copy_to)
      [] action.kind = "Delete" -> Delete(tok, scope, name, path)

\* UpdateCdnAsset from the scope lookup to `match action`, and CopyFile's
\* copy_to: the refusal, or the path strings the actions go on to use
AssetPaths(scope, name, path, copy_to) ==
    IF \/ scope \notin CdnScopes
       \/ ~validate_name(name)
       \/ ~validate_path(path)
       \/ ~validate_path(copy_to)
    THEN [ok |-> FALSE, name |-> name, path |-> path, touched |-> {}]
    ELSE [ok |-> TRUE, name |-> name, path |-> path,
          touched |-> {asset_path(path), asset_final_path(path, name), copy_to}]

Next ==
    \/ \E ident \in Identities, redirect \in RedirectInputs :
            Login(ident, redirect) /\ UNCHANGED <<accepted, bot, inflight, ext>>
    \/ \E tok \in TokenInputs : LoginMfaCheckStatus(tok) /\ UNCHANGED <<accepted, bot, inflight, ext>>
    \/ \E tok \in TokenInputs, otp \in Codes :
            LoginActivateSession(tok, otp) /\ UNCHANGED <<accepted, bot, inflight, ext>>
    \/ \E tok \in TokenInputs, otp \in Codes :
            LoginResetMfa(tok, otp) /\ UNCHANGED <<accepted, bot, inflight, ext>>
    \/ \E tok \in TokenInputs : Logout(tok) /\ UNCHANGED <<accepted, bot, inflight, ext>>
    \/ Tick /\ UNCHANGED <<accepted, bot, inflight, ext>>

Spec == Init /\ [][Next]_vars

\* the same, with the requests for the login url that precede a Login
NextUrl ==
    \/ Next
    \/ \E version \in VersionInputs, redirect \in RedirectInputs :
            GetLoginUrl(version, redirect) /\ UNCHANGED <<accepted, bot, inflight, ext>>

SpecUrl == Init /\ [][NextUrl]_vars

\* the same, with staff members removed from the staff list meanwhile
NextStaff ==
    \/ Next
    \/ \E u \in UserIds : staff_del(u) /\ UNCHANGED <<accepted, onboard, cmd, inflight, ext>>

SpecStaff == Init /\ [][NextStaff]_vars

NextConc ==
    \/ \E p \in Procs, ident \in Identities, redirect \in RedirectInputs :
            ConcLoginBegin(p, ident, redirect) /\ UNCHANGED <<accepted, bot, inflight, ext>>
    \/ \E p \in Procs : ConcLoginDeleteScan(p) /\ UNCHANGED <<accepted, bot, inflight, ext>>
    \/ \E p \in Procs : ConcLoginDelete(p) /\ UNCHANGED <<accepted, bot, inflight, ext>>
    \/ \E p \in Procs : ConcLoginCount(p) /\ UNCHANGED <<accepted, bot, inflight, ext>>
    \/ \E p \in Procs : ConcLoginPanelData(p) /\ UNCHANGED <<accepted, bot, inflight, ext>>
    \/ \E p \in Procs : ConcLoginInsert(p) /\ UNCHANGED <<accepted, bot, inflight, ext>>
    \/ \E p \in Procs : ConcLoginCommit(p) /\ UNCHANGED <<accepted, bot, inflight, ext>>
    \/ \E tok \in TokenInputs : ConcLogout(tok) /\ UNCHANGED <<accepted, bot, inflight, ext>>

SpecConc == Init /\ [][NextConc]_vars

\* ------------------------------------------------ accepted-code history
\* LoginActivateSession, counting each success under the user, the stored
\* secret and the time step whose code was accepted
CountedActivateSession(tok, otp) ==
    /\ LoginActivateSession(tok, otp)
    /\ IF resp'.status = 204
       THEN \E r \in SessionsOf(tok) : \E m \in PanelRows(r.user_id) :
              LET k == <<r.user_id, Decode(m.mfa_secret), now>> IN
              /\ accepted[k] < MaxAccepts
              /\ accepted' = [accepted EXCEPT ![k] = @ + 1]
       ELSE UNCHANGED accepted

NextOtp ==
    \/ \E ident \in Identities, redirect \in RedirectInputs :
            Login(ident, redirect) /\ UNCHANGED <<accepted, bot, inflight, ext>>
    \/ \E tok \in TokenInputs : LoginMfaCheckStatus(tok) /\ UNCHANGED <<accepted, bot, inflight, ext>>
    \/ \E tok \in TokenInputs, otp \in Codes :
            CountedActivateSession(tok, otp) /\ UNCHANGED <<bot, ext, inflight>>
    \/ \E tok \in TokenInputs, otp \in Codes :
            LoginResetMfa(tok, otp) /\ UNCHANGED <<accepted, bot, inflight, ext>>
    \/ \E tok \in TokenInputs : Logout(tok) /\ UNCHANGED <<accepted, bot, inflight, ext>>
    \/ Tick /\ UNCHANGED <<accepted, bot, inflight, ext>>

SpecOtp == Init /\ [][NextOtp]_vars

\* --------------------------------------------------- RPC for every role
\* every value the role flags of a users row can take
RoleRows(u) ==
    {UserRow(u, o, ha, hd, a, st) : o \in BOOLEAN, ha \in BOOLEAN, hd \in BOOLEAN,
                                    a \in BOOLEAN, st \in BOOLEAN}

\* the sessions after Login(u1), LoginMfaCheckStatus, LoginActivateSession and
\* Login(u2): token 1 is u1's active session, token 2 is u2's pending session
LoggedIn ==
    /\ authchain = SetActive({NewSession(1, "u1")}, 1) \cup {NewSession(2, "u2")}
    /\ paneldata = SetVerified({NewPanelData("u1", 1)}, "u1", TRUE)
                        \cup {NewPanelData("u2", 1)}
    /\ issued = 2
    /\ now = 0
    /\ resp = Response("none", 0, "", 0, "", NoBody)
    /\ pc = [p \in Procs |-> "idle"]
    /\ tx = [p \in Procs |-> idleTx]
    /\ accepted = [k \in UserIds \X Secrets \X (0..MaxTime) |-> 0]
    /\ rpclog = {}
    /\ cache = {}
    /\ clock = 0
    /\ fs = EmptyTree
    /\ tmp = {}
    /\ drawn = 0
    /\ seen = NotSeen
    /\ job = [p \in Procs |-> idleJob]
    /\ hist = NoHist
    /\ guild = Moderators
    /\ onboard = [u \in UserIds |-> Completed]
    /\ cmd = [p \in Procs |-> idleCmd]

\* u1 holds any combination of role flags, u2 all of them
InitRpc ==
    /\ \E r1 \in RoleRows("u1") :
            users = {r1, UserRow("u2", TRUE, TRUE, TRUE, TRUE, TRUE)}
    /\ LoggedIn

NextRpc ==
    \/ \E tok \in TokenInputs, method \in RPCMethods :
            ExecuteRpc(tok, method) /\ UNCHANGED <<accepted, bot, inflight, cdn>>
    \/ \E tok \in TokenInputs, filtered \in BOOLEAN :
            GetRpcMethods(tok, filtered) /\ UNCHANGED <<accepted, bot, inflight, cdn>>
    \/ \E tok \in TokenInputs : Logout(tok) /\ UNCHANGED <<accepted, bot, inflight, ext>>

SpecRpc == InitRpc /\ [][NextRpc]_vars

\* ------------------------------------------------------ chunk uploads
\* u1 is an admin or a plain staff member, both with an active session
InitCdn ==
    /\ \E a \in BOOLEAN :
            users = {UserRow("u1", FALSE, FALSE, FALSE, a, TRUE),
                     UserRow("u2", TRUE, TRUE, TRUE, TRUE, TRUE)}
    /\ LoggedIn

NextChunk ==
    \/ \E tok \in TokenInputs, chunk \in ChunkInputs, id \in ChunkIds :
            UploadCdnFileChunk(tok, chunk, id) /\ UNCHANGED <<accepted, bot, inflight, seen>>
    \/ Elapse /\ UNCHANGED <<accepted, bot, inflight, seen>>

SpecChunk == InitCdn /\ [][NextChunk]_vars

\* ----------------------------------------------------------- AddFile
\* AddFile, noting what the request met when it started (a listed chunk
\* missing, the destination's metadata) and what it left unchanged
SeenAddFile(tok, scope, name, path, overwrite, chunks, sha512) ==
    /\ AddFile(tok, scope, name, path, overwrite, chunks, sha512)
    /\ seen' = [missing |-> \E i \in 1..Len(chunks) : ~ContainsKey(chunks[i]),
                overwrite |-> overwrite,
                dest |-> metadata(fs, Resolve(asset_final_path(path, name))),
                same |-> cache' = cache /\ fs' = fs /\ tmp' = tmp]

\* the requests: destinations d and d/f as <<path, name>>, lists of up to two
\* chunk ids, the digest of the file of one byte "a"
Targets == {<<<<>>, NameD>>, <<NameD, NameF>>}
ChunkLists == {<<>>} \cup {<<a>> : a \in ChunkIds} \cup (ChunkIds \X ChunkIds)
ShaInputs == {Sha512Hex(<<<<1, "a">>>>)}
SmallChunks == {c \in ChunkInputs : ChunkLen(c) <= 1}

NextCdn ==
    \/ \E tok \in TokenInputs, chunk \in SmallChunks, id \in ChunkIds :
            UploadCdnFileChunk(tok, chunk, id) /\ UNCHANGED <<accepted, bot, inflight, seen>>
    \/ \E tok \in TokenInputs, t \in Targets, overwrite \in BOOLEAN,
          chunks \in ChunkLists, sha512 \in ShaInputs :
            SeenAddFile(tok, "main", t[2], t[1], overwrite, chunks, sha512)
                /\ UNCHANGED <<accepted, bot, inflight>>
    \/ \E tok \in TokenInputs, scope \in ScopeInputs \ CdnScopes, sha512 \in ShaInputs :
            SeenAddFile(tok, scope, NameF, <<>>, FALSE, <<1>>, sha512)
                /\ UNCHANGED <<accepted, bot, inflight>>

SpecCdn == InitCdn /\ [][NextCdn]_vars

\* ------------------------------------------------- AddFile, publishing
\* chunks of ten bytes "a" or "b" under the three chunk ids of one upload
PubIds == {1, 2, 3}
PubChunks == {<<10, "a">>, <<10, "b">>}

\* the payload a listed chunk id holds when the call starts, <<>> for none
PayloadOf(id) ==
    IF ContainsKey(id) THEN (CHOOSE e \in Live(cache, id) : TRUE).chunk ELSE <<>>

\* AddFile in a configured scope, noting the request (destination node, what
\* stood there, the listed payloads, the digest) next to its response
PubAddFile(tok, name, path, overwrite, chunks, sha512) ==
    /\ AddFile(tok, "main", name, path, overwrite, chunks, sha512)
    /\ seen' = [final |-> Resolve(asset_final_path(path, name)),
                before |-> Kind(fs, Resolve(asset_final_path(path, name))),
                named |-> name # <<>>,
                overwrite |-> overwrite,
                payloads |-> [i \in 1..Len(chunks) |-> PayloadOf(chunks[i])],
                sha512 |-> sha512]

\* the token of u1's active session; the destination d, named by name or by
\* path alone; the chunks in the
\* order of their upload or in the reverse order, or the first one alone;
\* the digests of the files "a" * 10 and "a" * 20 + "b" * 10
PubTokens == {1}
PubTargets == {<<<<>>, NameD>>, <<NameD, <<>>>>}
PubLists == {<<1>>, <<1, 2, 3>>, <<3, 2, 1>>}
PubDigests == {Sha512Hex(<<<<10, "a">>>>), Sha512Hex(<<<<20, "a">>, <<10, "b">>>>)}

\* the caller gives up once a call has left its temporary file behind
NextPub ==
    \/ \E tok \in PubTokens, chunk \in PubChunks, id \in PubIds :
            UploadCdnFileChunk(tok, chunk, id) /\ UNCHANGED <<accepted, bot, inflight, seen>>
    \/ \E tok \in PubTokens, t \in PubTargets, overwrite \in BOOLEAN,
          chunks \in PubLists, sha512 \in PubDigests :
            /\ tmp = {}
            /\ PubAddFile(tok, t[2], t[1], overwrite, chunks, sha512)
            /\ UNCHANGED <<accepted, bot, inflight>>

SpecPub == InitCdn /\ [][NextPub]_vars

\* --------------------------------------------- AddFile, two at a time
\* UploadCdnFileChunk, counting the uploads each chunk id has taken
AsmUpload(tok, chunk, id) ==
    /\ hist.serial[id] < MaxUploads
    /\ UploadCdnFileChunk(tok, chunk, id)
    /\ hist' = IF resp'.status = 200
               THEN [hist EXCEPT !.serial[id] = @ + 1] ELSE hist
    /\ UNCHANGED <<accepted, bot, seen, job>>

\* chunks of one byte; lists of one or two chunk ids; the digests of the
\* files "a" and "ab"; the destination d, read or written
AsmChunks == {<<1, "a">>, <<1, "b">>}
AsmLists == {<<1>>, <<1, 2>>}
AsmDigests == {Sha512Hex(<<<<1, "a">>>>), Sha512Hex(<<<<1, "a">>, <<1, "b">>>>)}

NextAsm ==
    \/ \E chunk \in AsmChunks, id \in ChunkIds : AsmUpload(1, chunk, id)
    \/ \E p \in Procs, chunks \in AsmLists, sha512 \in AsmDigests :
            /\ tmp = {}
            /\ AddFileCheck(p, 1, "main", NameD, <<>>, TRUE, chunks, sha512)
            /\ UNCHANGED <<accepted, bot, seen>>
    \/ \E p \in Procs : AddFileFetch(p) /\ UNCHANGED <<accepted, bot, seen>>
    \/ \E p \in Procs : AddFileHash(p) /\ UNCHANGED <<accepted, bot, seen>>
    \/ \E p \in Procs : AddFileCopyOpen(p) /\ UNCHANGED <<accepted, bot, seen>>
    \/ \E p \in Procs : AddFileCopyData(p) /\ UNCHANGED <<accepted, bot, seen>>
    \/ \E p \in Procs : AddFileUnlink(p) /\ UNCHANGED <<accepted, bot, seen>>
    \/ Crash /\ UNCHANGED <<accepted, bot, seen>>
    \/ ReadFile(1, "main", NameD, <<>>) /\ UNCHANGED <<accepted, bot, seen, inflight>>

SpecAsm == InitCdn /\ [][NextAsm]_vars

\* ------------------------------------------- UpdateCdnAsset, every action
\* what validation is there to stop: a path with "..", "//", a backslash or a
\* leading "/"; a name with "/", a backslash, a character that is not
\* allowed or a leading "."
BadPath(path) ==
    \/ \E i \in 1..Len(path) : path[i] = "\\"
    \/ \E i \in 2..Len(path) : <<path[i - 1], path[i]>> \in {<<".", ".">>, <<"/", "/">>}
    \/ (path # <<>> /\ Head(path) = "/")
BadName(name) ==
    \/ \E i \in 1..Len(name) : name[i] \in {"/", "\\"} \/ name[i] \notin NameChars
    \/ (name # <<>> /\ Head(name) = ".")

\* the request, noting next to the response whether validation has to stop it
\* and whether the chunk cache, the tree and /tmp are as before
SeenUpdate(tok, scope, name, path, action) ==
    /\ UpdateCdnAsset(tok, scope, name, path, action)
    /\ seen' = [kind |-> action.kind,
                invalid |-> \/ scope \notin CdnScopes
                            \/ BadName(name)
                            \/ BadPath(path)
                            \/ action.kind = "CopyFile" /\ BadPath(action.copy_to),
                same |-> cache' = cache /\ fs' = fs /\ tmp' = tmp]
    /\ UNCHANGED <<accepted, bot, inflight>>

\* <<path, name>> that pass validation and lead to a node of the tree, and
\* names and paths that validation has to stop
GoodTargets ==
    {<<<<>>, <<>>>>, <<<<>>, NameD>>, <<NameD, NameF>>, <<<<"d", "/">>, NameF>>}
BadNames == {<<".", "f">>, <<"d", "/", "f">>, <<"f", "\\">>, <<"*">>}
BadPaths == {<<".", ".">>, <<"d", "/", ".", ".">>, <<"/", "d">>, <<"d", "/", "/", "f">>,
             <<"d", "\\">>}
BadTargets == {<<NameD, n>> : n \in BadNames} \cup {<<p, NameF>> : p \in BadPaths}

\* the actions of a request
Simple == {[kind |-> k] : k \in {"ListPath", "ReadFile", "CreateFolder", "Delete"}}
Adds ==
    {[kind |-> "AddFile", overwrite |-> o, chunks |-> <<1>>,
      sha512 |-> Sha512Hex(<<<<1, "a">>>>)] : o \in BOOLEAN}
Copies(moves, tos) ==
    {[kind |-> "CopyFile", overwrite |-> TRUE, delete_original |-> m, copy_to |-> c] :
        m \in moves, c \in tos}
EachKind == Simple \cup {a \in Adds : a.overwrite} \cup Copies({TRUE}, {NameF})

NextTree ==
    \/ UploadCdnFileChunk(1, <<1, "a">>, 1) /\ UNCHANGED <<accepted, bot, inflight, seen>>
    \/ \E t \in GoodTargets, action \in Simple \cup Adds \cup Copies(BOOLEAN, {NameF}) :
            SeenUpdate(1, "main", t[2], t[1], action)
    \/ \E t \in BadTargets, action \in EachKind :
            SeenUpdate(1, "main", t[2], t[1], action)
    \/ \E action \in EachKind : SeenUpdate(1, "nowhere", NameF, NameD, action)
    \/ \E action \in Copies({FALSE}, BadPaths \cup {<<>>}) :
            SeenUpdate(1, "main", NameD, <<>>, action)

SpecTree == InitCdn /\ [][NextTree]_vars

\* ------------------------------------------- CopyFile and Delete, noted
\* what the last request met: its action, the tree before it, the node it
\* named, and for CopyFile the copy_to node and the two flags
NoRequest == [kind |-> "none"]
Noted(kind, name, path, copy_to, overwrite, delete_original) ==
    hist' = [kind |-> kind, before |-> fs,
             final |-> Resolve(asset_final_path(path, name)),
             dst |-> Resolve(copy_to),
             overwrite |-> overwrite, delete_original |-> delete_original]

\* file contents, and the trees the requests start from: a directory d with a
\* file beside nothing, beside a directory f with a file, beside a file f
ContentA == <<<<1, "a">>>>
ContentB == <<<<1, "b">>>>
TreeOf(f, ff) ==
    [n \in Nodes |->
        CASE n = <<>> -> Dir
          [] n = <<NameD>> -> Dir
          [] n = <<NameD, NameF>> -> File(ContentA)
          [] n = <<NameF>> -> f
          [] n = <<NameF, NameF>> -> ff]
CopyTrees == {TreeOf(Absent, Absent), TreeOf(Dir, File(ContentB)),
              TreeOf(Dir, Absent), TreeOf(File(ContentB), Absent)}

\* <<path, name>> of the scope root, d, f and d/f; the copy_to strings
CopyTargets == {<<<<>>, <<>>>>, <<<<>>, NameD>>, <<<<>>, NameF>>, <<NameD, NameF>>}
CopyTos == {NameD, NameF, <<"d", "/", "f">>, <<"f", "/", "f">>}

InitCopy ==
    /\ users = {UserRow("u1", FALSE, FALSE, FALSE, TRUE, TRUE),
                UserRow("u2", TRUE, TRUE, TRUE, TRUE, TRUE)}
    /\ authchain = SetActive({NewSession(1, "u1")}, 1) \cup {NewSession(2, "u2")}
    /\ paneldata = SetVerified({NewPanelData("u1", 1)}, "u1", TRUE)
                        \cup {NewPanelData("u2", 1)}
    /\ issued = 2
    /\ now = 0
    /\ resp = Response("none", 0, "", 0, "", NoBody)
    /\ pc = [p \in Procs |-> "idle"]
    /\ tx = [p \in Procs |-> idleTx]
    /\ accepted = [k \in UserIds \X Secrets \X (0..MaxTime) |-> 0]
    /\ rpclog = {}
    /\ cache = {}
    /\ clock = 0
    /\ fs \in CopyTrees
    /\ tmp = {}
    /\ drawn = 0
    /\ seen = NotSeen
    /\ job = [p \in Procs |-> idleJob]
    /\ hist = NoRequest
    /\ guild = Moderators
    /\ onboard = [u \in UserIds |-> Completed]
    /\ cmd = [p \in Procs |-> idleCmd]

NextCopy ==
    \/ \E t \in CopyTargets, copy_to \in CopyTos, overwrite \in BOOLEAN,
          delete_original \in BOOLEAN :
            /\ CopyFile(1, "main", t[2], t[1], overwrite, delete_original, copy_to)
            /\ Noted("CopyFile", t[2], t[1], copy_to, overwrite, delete_original)
            /\ UNCHANGED <<accepted, bot, job, seen>>
    \/ \E t \in CopyTargets :
            /\ Delete(1, "main", t[2], t[1])
            /\ Noted("Delete", t[2], t[1], <<>>, FALSE, FALSE)
            /\ UNCHANGED <<accepted, bot, job, seen>>
    \/ \E t \in CopyTargets :
            /\ CreateFolder(1, "main", t[2], t[1])
            /\ Noted("CreateFolder", t[2], t[1], <<>>, FALSE, FALSE)
            /\ UNCHANGED <<accepted, bot, job, seen>>

SpecCopy == InitCopy /\ [][NextCopy]_vars

\* ------------------------------------------------ names and paths, all
\* every string of up to n of the characters that matter to validation
PathAlphabet == {".", "/", "\\", "d"}
Strings(n) == UNION {[1..k -> PathAlphabet] : k \in 0..n}

\* one request, its strings validated and its paths built
Locate(scope, name, path, copy_to) ==
    /\ seen' = AssetPaths(scope, name, path, copy_to)
    /\ UNCHANGED <<users, authchain, paneldata, issued, now, resp, pc, tx>>
    /\ UNCHANGED <<accepted, bot, rpclog, cache, clock, fs, tmp, drawn, inflight>>

NextPath ==
    \/ /\ seen = NotSeen
       /\ \E name \in Strings(MaxNameLen), path \in Strings(MaxPathLen) :
                Locate("main", name, path, <<>>)
    \/ /\ seen = NotSeen
       /\ \E copy_to \in Strings(MaxPathLen) : Locate("main", NameF, NameD, copy_to)

SpecPath == InitCdn /\ [][NextPath]_vars

\* ------------------------------------- REST staff actions (api/routes.rs)
\* api tokens and Authorization header values are byte strings
Token1 == <<116, 49>>
Token2 == <<116, 50>>
NonAscii == <<255>>
\* what a request carries under "Authorization": nothing, or one value
HeaderInputs == {{}, {Token1}, {Token2}, {NonAscii}}

\* a row of the users table with the columns the REST handlers select
ApiUser(u, hadmin, iblhdev, staff, api_token) ==
    [user_id |-> u, owner |-> FALSE, hadmin |-> hadmin, iblhdev |-> iblhdev,
     ibldev |-> FALSE, admin |-> FALSE, staff |-> staff, api_token |-> api_token]

\* HeaderValue::to_str: the value as a string, if every byte is visible ASCII
to_str(value) ==
    IF \A i \in 1..Len(value) : value[i] \in (32..126) \cup {9}
    THEN [ok |-> TRUE, str |-> value]
    ELSE [ok |-> FALSE, str |-> <<>>]

\* what the caller gets when the handler panics: the connection closed
\* without an answer, or the server's error answer
PanicOutcomes == {0, 500}

\* the handlers' common course: the header read, the user looked up by
\* staff_id, token and role flags compared, then the bot action called; the
\* action fails or is applied and answered with `done`
StaffEndpoint(op, headers, staff_id, roles, done) ==
    LET Reply(status, msg) == resp' = Response(op, headers, staff_id, status, msg, NoBody)
        auth == to_str(IF headers = {} THEN <<>> ELSE CHOOSE h \in headers : TRUE)
        check == UserRows(staff_id)
        Met(invoked) == seen' = [invoked |-> invoked, known |-> check # {}]
    IN
    /\ IF ~auth.ok
       THEN /\ \E status \in PanicOutcomes : Reply(status, "panicked")
            /\ Met(FALSE) /\ UNCHANGED rpclog
       ELSE IF check = {}
       THEN Reply(401, "") /\ Met(FALSE) /\ UNCHANGED rpclog
       ELSE IF \E r \in check : r.api_token # auth.str \/ ~(\E f \in roles : r[f])
       THEN Reply(401, "") /\ Met(FALSE) /\ UNCHANGED rpclog
       ELSE /\ Met(TRUE)
            /\ \/ Reply(400, "action failed") /\ UNCHANGED rpclog
               \/ /\ Reply(done, "")
                  /\ rpclog' = rpclog \cup {[user_id |-> staff_id, method |-> op]}
    /\ UNCHANGED <<users, authchain, paneldata, issued, now, pc, tx>>
    /\ UNCHANGED <<accepted, bot, cache, clock, fs, tmp, drawn>>

approve_bot(headers, staff_id) ==
    StaffEndpoint("approve_bot", headers, staff_id, {"staff"}, 200)
deny_bot(headers, staff_id) ==
    StaffEndpoint("deny_bot", headers, staff_id, {"staff"}, 204)
vote_reset_bot(headers, staff_id) ==
    StaffEndpoint("vote_reset_bot", headers, staff_id, {"hadmin", "iblhdev"}, 204)
vote_reset_all_bot(headers, staff_id) ==
    StaffEndpoint("vote_reset_all_bot", headers, staff_id, {"hadmin", "iblhdev"}, 204)
unverify_bot(headers, staff_id) ==
    StaffEndpoint("unverify_bot", headers, staff_id, {"hadmin", "iblhdev"}, 204)

RestOps == {"approve_bot", "deny_bot", "vote_reset_bot", "vote_reset_all_bot",
            "unverify_bot"}
StaffIds == {"u1", Stranger}

\* u1 holds an api token and any combination of the flags the handlers read,
\* u2 another token and every flag; the stranger has no row
InitRest ==
    /\ \E ha \in BOOLEAN, hd \in BOOLEAN, st \in BOOLEAN :
            users = {ApiUser("u1", ha, hd, st, Token1),
                     ApiUser("u2", TRUE, TRUE, TRUE, Token2)}
    /\ LoggedIn

NextRest ==
    \/ \E headers \in HeaderInputs, staff_id \in StaffIds :
            approve_bot(headers, staff_id) /\ UNCHANGED inflight
    \/ \E headers \in HeaderInputs, staff_id \in StaffIds :
            deny_bot(headers, staff_id) /\ UNCHANGED inflight
    \/ \E headers \in HeaderInputs, staff_id \in StaffIds :
            vote_reset_bot(headers, staff_id) /\ UNCHANGED inflight
    \/ \E headers \in HeaderInputs, staff_id \in StaffIds :
            vote_reset_all_bot(headers, staff_id) /\ UNCHANGED inflight
    \/ \E headers \in HeaderInputs, staff_id \in StaffIds :
            unverify_bot(headers, staff_id) /\ UNCHANGED inflight

SpecRest == InitRest /\ [][NextRest]_vars

\* --------------------------------------- refusals, with and without a row
\* no refusal met yet: the last refusal a caller without a users row got and
\* the last one a caller with a row got, as <<operation, request, status, message>>
NoRefusal == [missing |-> <<>>, known |-> <<>>]

\* the header values that reach the handlers' lookup of staff_id
LeakHeaders == {{}, {Token1}, {Token2}}

\* the refusals on record after a request whose response is resp'
Refusals(request) ==
    IF (resp'.op = "Login" /\ resp'.status # 200) \/ resp'.status = 401
    THEN [hist EXCEPT ![IF UserRows(resp'.ident) = {} THEN "missing" ELSE "known"] =
                            <<resp'.op, request, resp'.status, resp'.msg>>]
    ELSE hist

\* u1 has a row, an api token and any of the head flags, and is not staff;
\* the stranger has no row
InitLeak ==
    /\ \E ha \in BOOLEAN, hd \in BOOLEAN :
            users = {ApiUser("u1", ha, hd, FALSE, Token1),
                     ApiUser("u2", TRUE, TRUE, TRUE, Token2)}
    /\ authchain = SetActive({NewSession(1, "u1")}, 1) \cup {NewSession(2, "u2")}
    /\ paneldata = SetVerified({NewPanelData("u1", 1)}, "u1", TRUE)
                        \cup {NewPanelData("u2", 1)}
    /\ issued = 2
    /\ now = 0
    /\ resp = Response("none", 0, "", 0, "", NoBody)
    /\ pc = [p \in Procs |-> "idle"]
    /\ tx = [p \in Procs |-> idleTx]
    /\ accepted = [k \in UserIds \X Secrets \X (0..MaxTime) |-> 0]
    /\ rpclog = {}
    /\ cache = {}
    /\ clock = 0
    /\ fs = EmptyTree
    /\ tmp = {}
    /\ drawn = 0
    /\ seen = NotSeen
    /\ job = [p \in Procs |-> idleJob]
    /\ hist = NoRefusal
    /\ guild = Moderators
    /\ onboard = [u \in UserIds |-> Completed]
    /\ cmd = [p \in Procs |-> idleCmd]

NextLeak ==
    \/ \E ident \in StaffIds, redirect \in RedirectInputs :
            /\ Login(ident, redirect)
            /\ hist' = Refusals(redirect)
            /\ UNCHANGED <<accepted, bot, job, ext>>
    \/ \E headers \in LeakHeaders, staff_id \in StaffIds :
            approve_bot(headers, staff_id) /\ hist' = Refusals(headers) /\ UNCHANGED job
    \/ \E headers \in LeakHeaders, staff_id \in StaffIds :
            deny_bot(headers, staff_id) /\ hist' = Refusals(headers) /\ UNCHANGED job
    \/ \E headers \in LeakHeaders, staff_id \in StaffIds :
            vote_reset_bot(headers, staff_id) /\ hist' = Refusals(headers) /\ UNCHANGED job
    \/ \E headers \in LeakHeaders, staff_id \in StaffIds :
            vote_reset_all_bot(headers, staff_id) /\ hist' = Refusals(headers) /\ UNCHANGED job
    \/ \E headers \in LeakHeaders, staff_id \in StaffIds :
            unverify_bot(headers, staff_id) /\ hist' = Refusals(headers) /\ UNCHANGED job

SpecLeak == InitLeak /\ [][NextLeak]_vars

\* ------------------------- ActivateSession and ResetMfa, step by step
\* Each statement of the two handlers is a step. check_auth runs on the pool
\* before the transaction begins. An UPDATE or DELETE takes the rows that
\* match among the committed ones when it runs and waits while another open
\* transaction holds one of them; its writes show at commit (READ COMMITTED).
\* Two transactions that wait for each other are a deadlock: one is aborted.

\* the open transaction of an ActivateSession or ResetMfa: the session row the
\* token resolved to, the code sent, rows replaced (del, pdel) and written (ac, pd)
OpenTx(auth_data, tok, otp) ==
    [user |-> auth_data.user_id, token |-> tok, otp |-> otp, snap |-> {},
     del |-> {}, ac |-> {}, pdel |-> {}, pd |-> {}]

PdLockedByOther(p, r) == \E q \in Procs \ {p} : InFlight(q) /\ r \in tx[q].pdel
Unlocked(rows) == \A r \in rows : \A p \in Procs : ~LockedByOther(p, r)
PdUnlocked(rows) == \A r \in rows : \A p \in Procs : ~PdLockedByOther(p, r)

StepReply(p, op, status, msg) ==
    /\ resp' = Response(op, tx[p].token, tx[p].user, status, msg, NoBody)
    /\ pc' = [pc EXCEPT ![p] = "idle"]
    /\ tx' = [tx EXCEPT ![p] = idleTx]

\* check_auth_insecure(&state.pool, &login_token) and pool.begin()
ActLookup(p, tok, otp) ==
    /\ pc[p] = "idle"
    /\ LET auth == CheckAuthInsecure(tok) IN
       IF auth = {}
       THEN /\ resp' = Response("LoginActivateSession", tok, "", 500,
                                "InvalidOrExpiredToken", NoBody)
            /\ UNCHANGED <<pc, tx>>
       ELSE /\ tx' = [tx EXCEPT ![p] = OpenTx(CHOOSE r \in auth : TRUE, tok, otp)]
            /\ pc' = [pc EXCEPT ![p] = "act_verify"]
            /\ UNCHANGED resp
    /\ UNCHANGED <<users, authchain, paneldata, issued, now>>

\* SELECT COUNT(*), SELECT mfa_secret, thotp::verify_totp
StepVerify(p, op, here, next) ==
    /\ pc[p] = here
    /\ LET mrecs == PanelRows(tx[p].user) IN
       IF mrecs = {}
       THEN StepReply(p, op, 400, "mfaNotSetup")
       ELSE IF ~VerifyTotp(tx[p].otp, Decode((CHOOSE m \in mrecs : TRUE).mfa_secret))
       THEN StepReply(p, op, 400, "mfaInvalidCode")
       ELSE pc' = [pc EXCEPT ![p] = next] /\ UNCHANGED <<resp, tx>>
    /\ UNCHANGED <<users, authchain, paneldata, issued, now>>

ActVerify(p) == StepVerify(p, "LoginActivateSession", "act_verify", "act_active")

\* UPDATE staffpanel__authchain SET state = 'active' WHERE token = $1
ActSetActive(p) ==
    /\ pc[p] = "act_active"
    /\ LET rows == SessionsOf(tx[p].token) IN
       /\ \A r \in rows : ~LockedByOther(p, r)
       /\ tx' = [tx EXCEPT ![p].del = rows, ![p].ac = SetActive(rows, tx[p].token)]
    /\ pc' = [pc EXCEPT ![p] = "act_verified"]
    /\ UNCHANGED <<users, authchain, paneldata, issued, now, resp>>

\* UPDATE staffpanel__paneldata SET mfa_verified = $v WHERE user_id = $1
StepSetVerified(p, here, next, v) ==
    /\ pc[p] = here
    /\ LET rows == PanelRows(tx[p].user) IN
       /\ \A r \in rows : ~PdLockedByOther(p, r)
       /\ tx' = [tx EXCEPT ![p].pdel = rows, ![p].pd = SetVerified(rows, tx[p].user, v)]
    /\ pc' = [pc EXCEPT ![p] = next]
    /\ UNCHANGED <<users, authchain, paneldata, issued, now, resp>>

ActSetVerified(p) == StepSetVerified(p, "act_verified", "act_commit", TRUE)

\* tx.commit() and the reply
StepCommit(p, op, here) ==
    /\ pc[p] = here
    /\ authchain' = (authchain \ tx[p].del) \cup tx[p].ac
    /\ paneldata' = (paneldata \ tx[p].pdel) \cup tx[p].pd
    /\ StepReply(p, op, 204, "")
    /\ UNCHANGED <<users, issued, now>>

ActCommit(p) == StepCommit(p, "LoginActivateSession", "act_commit")

\* check_auth(&state.pool, &login_token) and pool.begin()
ResetLookup(p, tok, otp) ==
    /\ pc[p] = "idle"
    /\ LET auth == CheckAuth(tok) IN
       IF auth = {}
       THEN /\ resp' = Response("LoginResetMfa", tok, "", 500,
                                "InvalidOrExpiredToken", NoBody)
            /\ UNCHANGED <<pc, tx>>
       ELSE /\ tx' = [tx EXCEPT ![p] = OpenTx(CHOOSE r \in auth : TRUE, tok, otp)]
            /\ pc' = [pc EXCEPT ![p] = "reset_verify"]
            /\ UNCHANGED resp
    /\ UNCHANGED <<users, authchain, paneldata, issued, now>>

ResetVerify(p) == StepVerify(p, "LoginResetMfa", "reset_verify", "reset_unverify")
ResetSetUnverified(p) == StepSetVerified(p, "reset_unverify", "reset_scan", FALSE)

\* DELETE FROM staffpanel__authchain WHERE user_id = $1 starts: its snapshot
ResetDeleteScan(p) ==
    /\ pc[p] = "reset_scan"
    /\ tx' = [tx EXCEPT ![p].snap = Sessions(tx[p].user)]
    /\ pc' = [pc EXCEPT ![p] = "reset_delete"]
    /\ UNCHANGED <<users, authchain, paneldata, issued, now, resp>>

\* ... and deletes the rows of its snapshot that are still there, once
\* unlocked; a row another transaction updated meanwhile is deleted as updated
ResetDeleteSkipped(p) ==
    /\ pc[p] = "reset_delete"
    /\ pc' = [pc EXCEPT ![p] = "reset_commit"]
    /\ UNCHANGED <<users, authchain, paneldata, issued, now, resp, tx>>
ResetDelete(p) ==
    /\ pc[p] = "reset_delete"
    /\ LET rows == {r \in authchain : \E s \in tx[p].snap : s.token = r.token} IN
       /\ \A r \in rows : ~LockedByOther(p, r)
       /\ tx' = [tx EXCEPT ![p].del = rows]
    /\ pc' = [pc EXCEPT ![p] = "reset_commit"]
    /\ UNCHANGED <<users, authchain, paneldata, issued, now, resp>>

ResetCommit(p) == StepCommit(p, "LoginResetMfa", "reset_commit")

\* the rows the next statement of p needs and q holds
WaitsFor(p, q) ==
    /\ InFlight(p) /\ InFlight(q) /\ p # q
    /\ \/ pc[p] = "act_active" /\ SessionsOf(tx[p].token) \cap tx[q].del # {}
       \/ pc[p] \in {"act_verified", "reset_unverify"}
            /\ PanelRows(tx[p].user) \cap tx[q].pdel # {}
       \/ pc[p] = "reset_delete" /\ authchain \cap tx[q].del # {}
            /\ \E r \in authchain \cap tx[q].del : \E s \in tx[p].snap : s.token = r.token

\* deadlock detected: the statement fails and the transaction is dropped
TxDeadlock(p) ==
    /\ \E q \in Procs : WaitsFor(p, q) /\ WaitsFor(q, p)
    /\ StepReply(p, IF pc[p] \in {"act_active", "act_verified"}
                    THEN "LoginActivateSession" ELSE "LoginResetMfa",
                 500, "deadlock detected")
    /\ UNCHANGED <<users, authchain, paneldata, issued, now>>

\* Login, MfaCheckStatus and Logout beside open transactions: their statements
\* wait for the rows an open transaction holds
BesideLogin(ident, redirect) ==
    /\ Unlocked(Sessions(ident)) /\ PdUnlocked(PanelRows(ident))
    /\ Login(ident, redirect)
BesideMfaCheckStatus(tok) ==
    /\ \A r \in SessionsOf(tok) : PdUnlocked(PanelRows(r.user_id))
    /\ LoginMfaCheckStatus(tok)
BesideLogout(tok) == Unlocked(SessionsOf(tok)) /\ Logout(tok)

NextAct ==
    \/ \E p \in Procs, tok \in TokenInputs, otp \in Codes :
            ActLookup(p, tok, otp) /\ UNCHANGED <<accepted, bot, inflight, ext>>
    \/ \E p \in Procs : ActVerify(p) /\ UNCHANGED <<accepted, bot, inflight, ext>>
    \/ \E p \in Procs : ActSetActive(p) /\ UNCHANGED <<accepted, bot, inflight, ext>>
    \/ \E p \in Procs : ActSetVerified(p) /\ UNCHANGED <<accepted, bot, inflight, ext>>
    \/ \E p \in Procs : ActCommit(p) /\ UNCHANGED <<accepted, bot, inflight, ext>>
    \/ \E p \in Procs, tok \in TokenInputs, otp \in Codes :
            ResetLookup(p, tok, otp) /\ UNCHANGED <<accepted, bot, inflight, ext>>
    \/ \E p \in Procs : ResetVerify(p) /\ UNCHANGED <<accepted, bot, inflight, ext>>
    \/ \E p \in Procs : ResetSetUnverified(p) /\ UNCHANGED <<accepted, bot, inflight, ext>>
    \/ \E p \in Procs : ResetDeleteScan(p) /\ UNCHANGED <<accepted, bot, inflight, ext>>
    \/ \E p \in Procs : ResetDelete(p) /\ UNCHANGED <<accepted, bot, inflight, ext>>
    \/ \E p \in Procs : ResetCommit(p) /\ UNCHANGED <<accepted, bot, inflight, ext>>
    \/ \E p \in Procs : TxDeadlock(p) /\ UNCHANGED <<accepted, bot, inflight, ext>>
    \/ \E redirect \in AllowedRedirects :
            BesideLogin("u1", redirect) /\ UNCHANGED <<accepted, bot, inflight, ext>>
    \/ \E tok \in TokenInputs :
            BesideMfaCheckStatus(tok) /\ UNCHANGED <<accepted, bot, inflight, ext>>
    \/ \E tok \in TokenInputs : BesideLogout(tok) /\ UNCHANGED <<accepted, bot, inflight, ext>>

\* nobody has logged in yet; or u1 holds the two sessions that two concurrent
\* Logins leave, token 1 activated since
InitAct ==
    /\ users = {UserRow(u, FALSE, FALSE, FALSE, FALSE, TRUE) : u \in UserIds}
    /\ \/ authchain = {} /\ paneldata = {} /\ issued = 0
       \/ /\ authchain = SetActive({NewSession(1, "u1")}, 1) \cup {NewSession(2, "u1")}
          /\ paneldata = SetVerified({NewPanelData("u1", 1)}, "u1", TRUE)
          /\ issued = 2
    /\ now = 0
    /\ resp = Response("none", 0, "", 0, "", NoBody)
    /\ pc = [p \in Procs |-> "idle"]
    /\ tx = [p \in Procs |-> idleTx]
    /\ accepted = [k \in UserIds \X Secrets \X (0..MaxTime) |-> 0]
    /\ rpclog = {}
    /\ cache = {}
    /\ clock = 0
    /\ fs = EmptyTree
    /\ tmp = {}
    /\ drawn = 0
    /\ seen = NotSeen
    /\ job = [p \in Procs |-> idleJob]
    /\ hist = NoHist
    /\ guild = Moderators
    /\ onboard = [u \in UserIds |-> Completed]
    /\ cmd = [p \in Procs |-> idleCmd]

SpecAct == InitAct /\ [][NextAct]_vars

\* ------------------------------------------- staff commands (staff.rs)
\* a users row with the flags staff recalc writes
StaffRow(u, iblhdev, ibldev, admin, staff) ==
    [UserRow(u, FALSE, FALSE, iblhdev, admin, staff) EXCEPT !.ibldev = ibldev]

\* what a bot command answered: the command, who or what it named, its message
Said(op, ident, msg) == resp' = Response(op, 0, ident, 0, msg, NoBody)

\* the UPDATE staff recalc runs for one member, by the first role that matches
RecalcMember(row, roles) ==
    IF Developer \in roles
    THEN [row EXCEPT !.staff = TRUE, !.ibldev = TRUE]
    ELSE IF HeadDeveloper \in roles
    THEN [row EXCEPT !.staff = TRUE, !.ibldev = TRUE, !.iblhdev = TRUE]
    ELSE IF StaffManager \in roles
    THEN [row EXCEPT !.staff = TRUE, !.admin = TRUE]
    ELSE IF WebModerator \in roles
    THEN [row EXCEPT !.staff = TRUE]
    ELSE row

\* UPDATE users SET staff = false, ibldev = false, admin = true
RecalcUnset(row) == [row EXCEPT !.staff = FALSE, !.ibldev = FALSE, !.admin = TRUE]

\* staff recalc: the confirmation prompt and the button pressed on it (none in
\* time, cancel, continue), then every row unset and every member's row set
staff_recalc(pressed) ==
    /\ IF pressed = "none"
       THEN Said("staff_recalc", pressed, "You didn't interact in time") /\ UNCHANGED users
       ELSE IF pressed = "cancel"
       THEN Said("staff_recalc", pressed, "Cancelled") /\ UNCHANGED users
       ELSE /\ users' = {IF r.user_id \in DOMAIN guild
                         THEN RecalcMember(RecalcUnset(r), guild[r.user_id])
                         ELSE RecalcUnset(r) : r \in users}
            /\ Said("staff_recalc", pressed, "Recalculated staff list")
    /\ UNCHANGED <<authchain, paneldata, issued, now, pc, tx, guild>>

\* staff add: a member who is a website moderator gets the staff flag
staff_add(member) ==
    /\ member \in DOMAIN guild
    /\ IF WebModerator \notin guild[member]
       THEN Said("staff_add", member, "is not a web moderator") /\ UNCHANGED users
       ELSE /\ users' = {IF r.user_id = member THEN [r EXCEPT !.staff = TRUE] ELSE r :
                            r \in users}
            /\ Said("staff_add", member, "Added to the staff list")
    /\ UNCHANGED <<authchain, paneldata, issued, now, pc, tx, guild>>

\* the staff server's own doing: a member is given another set of roles
RoleSets == SUBSET {Developer, HeadDeveloper, StaffManager, WebModerator}
RolesGiven(member, roles) ==
    /\ member \in DOMAIN guild
    /\ guild[member] # roles
    /\ guild' = [guild EXCEPT ![member] = roles]
    /\ UNCHANGED <<users, authchain, paneldata, issued, now, resp, pc, tx>>

Buttons == {"none", "cancel", "continue"}

\* u1 and u2 are staff and website moderators, as after staff add
InitRecalc ==
    /\ users = {StaffRow(u, FALSE, FALSE, FALSE, TRUE) : u \in UserIds}
    /\ LoggedIn

\* a step of the staff commands, noting whether it was a recalc that went
\* through (history, kept in seen)
AfterRecalc(done) ==
    /\ seen' = [recalculated |-> done]
    /\ UNCHANGED <<accepted, onboard, cmd, inflight, rpclog, cache, clock, fs, tmp, drawn>>

NextRecalc ==
    \/ \E pressed \in Buttons : staff_recalc(pressed) /\ AfterRecalc(pressed = "continue")
    \/ \E member \in UserIds : staff_add(member) /\ AfterRecalc(FALSE)
    \/ \E u \in UserIds : staff_del(u) /\ AfterRecalc(FALSE)
    \/ \E roles \in RoleSets : RolesGiven("u1", roles) /\ AfterRecalc(FALSE)

SpecRecalc == InitRecalc /\ [][NextRecalc]_vars

\* ------------------------------------- staff del beside the REST endpoints
\* the role flags of a users row
RoleFlags == {"owner", "hadmin", "iblhdev", "ibldev", "admin", "staff"}

\* the step gives the user a role flag the user did not hold
Granted(u) ==
    \E r \in users : \E r2 \in users' :
        /\ r.user_id = u /\ r2.user_id = u
        /\ \E f \in RoleFlags : ~r[f] /\ r2[f]

\* what is noted of the past: the users staff del went through for and who
\* got no role flag since, and whether the last step was a REST request
NoneRemoved == [removed |-> {}, rest |-> FALSE]
NoteRemoved(deleted, rest) ==
    hist' = [removed |-> {u \in hist.removed \cup deleted : ~Granted(u)}, rest |-> rest]

\* u1 holds an api token and any combination of the flags the handlers read,
\* u2 another token and every flag; both are members of the staff server
InitDel ==
    /\ \E ha \in BOOLEAN, hd \in BOOLEAN, st \in BOOLEAN :
            users = {ApiUser("u1", ha, hd, st, Token1),
                     ApiUser("u2", TRUE, TRUE, TRUE, Token2)}
    /\ authchain = SetActive({NewSession(1, "u1")}, 1) \cup {NewSession(2, "u2")}
    /\ paneldata = SetVerified({NewPanelData("u1", 1)}, "u1", TRUE)
                        \cup {NewPanelData("u2", 1)}
    /\ issued = 2
    /\ now = 0
    /\ resp = Response("none", 0, "", 0, "", NoBody)
    /\ pc = [p \in Procs |-> "idle"]
    /\ tx = [p \in Procs |-> idleTx]
    /\ accepted = [k \in UserIds \X Secrets \X (0..MaxTime) |-> 0]
    /\ rpclog = {}
    /\ cache = {}
    /\ clock = 0
    /\ fs = EmptyTree
    /\ tmp = {}
    /\ drawn = 0
    /\ seen = NotSeen
    /\ job = [p \in Procs |-> idleJob]
    /\ hist = NoneRemoved
    /\ guild = Moderators
    /\ onboard = [u \in UserIds |-> Completed]
    /\ cmd = [p \in Procs |-> idleCmd]

\* the callers' headers: none, u1's token
DelHeaders == {{}, {Token1}}

RestRequest(headers, staff_id) ==
    /\ NoteRemoved({}, TRUE)
    /\ UNCHANGED job

BotCommand(deleted) ==
    /\ NoteRemoved(deleted, FALSE)
    /\ UNCHANGED <<accepted, onboard, cmd, job, ext>>

NextDel ==
    \/ \E u \in UserIds : staff_del(u) /\ BotCommand({u})
    \/ \E member \in UserIds : staff_add(member) /\ BotCommand({})
    \/ \E pressed \in Buttons : staff_recalc(pressed) /\ BotCommand({})
    \/ \E headers \in DelHeaders :
            approve_bot(headers, "u1") /\ RestRequest(headers, "u1")
    \/ \E headers \in DelHeaders :
            deny_bot(headers, "u1") /\ RestRequest(headers, "u1")
    \/ \E headers \in DelHeaders :
            vote_reset_bot(headers, "u1") /\ RestRequest(headers, "u1")
    \/ \E headers \in DelHeaders :
            vote_reset_all_bot(headers, "u1") /\ RestRequest(headers, "u1")
    \/ \E headers \in DelHeaders :
            unverify_bot(headers, "u1") /\ RestRequest(headers, "u1")

SpecDel == InitDel /\ [][NextDel]_vars

\* ------------------------------------------------- onboarding commands
\* the values of users.staff_onboard_state (Pending, PendingManagerReview,
\* Denied, Completed stand for what OnboardState::as_str gives)
OnboardStates == {Pending, PendingManagerReview, Denied, Completed}

\* the state a command may act on
ApproveFrom == {PendingManagerReview, Denied}
DenyFrom == {PendingManagerReview}

\* SELECT staff_onboard_state FROM users WHERE user_id = $1, of approve/deny:
\* the command holds what it read until its next statement
OnboardSelect(p, op, u) ==
    /\ cmd[p] = idleCmd
    /\ cmd' = [cmd EXCEPT ![p] = [op |-> op, user |-> u, read |-> onboard[u]]]
    /\ UNCHANGED <<onboard, resp>>

\* the check of what was read, then UPDATE users SET staff_onboard_state = $1
\* WHERE user_id = $2 and the reply
OnboardUpdate(p, op, from, to, msg) ==
    /\ cmd[p].op = op
    /\ IF cmd[p].read \notin from
       THEN /\ Said(op, cmd[p].user, "User is not pending manager review")
            /\ UNCHANGED onboard
       ELSE /\ onboard' = [onboard EXCEPT ![cmd[p].user] = to]
            /\ Said(op, cmd[p].user, msg)
    /\ cmd' = [cmd EXCEPT ![p] = idleCmd]

\* onboardman approve, its two statements
approveonboard_select(p, member) == OnboardSelect(p, "approve", member)
approveonboard_update(p) ==
    OnboardUpdate(p, "approve", ApproveFrom, Completed, "Onboarding request approved!")

\* onboardman deny, its two statements
denyonboard_select(p, user) == OnboardSelect(p, "deny", user)
denyonboard_update(p) ==
    OnboardUpdate(p, "deny", DenyFrom, Denied, "Onboarding request denied!")

\* onboardman reset: the confirmation, then one UPDATE
resetonboard(p, user, pressed) ==
    /\ cmd[p] = idleCmd
    /\ IF pressed = "none"
       THEN Said("reset", user, "You didn't interact in time") /\ UNCHANGED onboard
       ELSE IF pressed = "cancel"
       THEN Said("reset", user, "Cancelled") /\ UNCHANGED onboard
       ELSE /\ onboard' = [onboard EXCEPT ![user] = Pending]
            /\ Said("reset", user, "Onboarding request reset!")
    /\ UNCHANGED cmd

\* the users are in any onboarding state when the managers' commands start
InitOnboard ==
    /\ users = {StaffRow(u, FALSE, FALSE, FALSE, TRUE) : u \in UserIds}
    /\ authchain = {}
    /\ paneldata = {}
    /\ issued = 0
    /\ now = 0
    /\ resp = Response("none", 0, "", 0, "", NoBody)
    /\ pc = [p \in Procs |-> "idle"]
    /\ tx = [p \in Procs |-> idleTx]
    /\ accepted = [k \in UserIds \X Secrets \X (0..MaxTime) |-> 0]
    /\ rpclog = {}
    /\ cache = {}
    /\ clock = 0
    /\ fs = EmptyTree
    /\ tmp = {}
    /\ drawn = 0
    /\ seen = NotSeen
    /\ job = [p \in Procs |-> idleJob]
    /\ hist = NoHist
    /\ guild = Moderators
    /\ onboard \in [UserIds -> OnboardStates]
    /\ cmd = [p \in Procs |-> idleCmd]

OnboardFrame == UNCHANGED <<accepted, guild, inflight, ext>> /\ Same

NextOnboard ==
    \/ \E p \in Procs, member \in UserIds : approveonboard_select(p, member) /\ OnboardFrame
    \/ \E p \in Procs : approveonboard_update(p) /\ OnboardFrame
    \/ \E p \in Procs, user \in UserIds : denyonboard_select(p, user) /\ OnboardFrame
    \/ \E p \in Procs : denyonboard_update(p) /\ OnboardFrame
    \/ \E p \in Procs, user \in UserIds, pressed \in Buttons :
            resetonboard(p, user, pressed) /\ OnboardFrame

SpecOnboard == InitOnboard /\ [][NextOnboard]_vars

\* ------------------------------------------------------------ claims
HasState(tok, st) == \E r \in SessionsOf(tok) : r.state = st
\* the one-time code the user's authenticator shows in the current window
CorrectOtp(tok, otp) ==
    \E r \in SessionsOf(tok) : \E m \in paneldata :
        m.user_id = r.user_id /\ otp = Totp(m.mfa_secret[2], now)

\* C1: a successful Login leaves exactly one session row for the user, pending
\* and carrying the returned token; every row the user had before is gone.
C1_LoginReplacesSessions ==
    [][\A u \in UserIds, redirect \in RedirectInputs :
        (resp'.op = "Login" /\ resp'.ident = u /\ resp'.status = 200
            /\ Login(u, redirect)) =>
            /\ \E r \in authchain' :
                 /\ {x \in authchain' : x.user_id = u} = {r}
                 /\ r.state = "pending"
                 /\ resp'.body = <<r.token>>
            /\ {x \in authchain : x.user_id = u} \cap authchain' = {}]_vars

\* a user who had activated a session logs in again and holds the new row only
C1_Witness ==
    /\ resp.op = "Login" /\ resp.status = 200 /\ resp.body = <<2>>
    /\ \E m \in paneldata : m.user_id = resp.ident /\ m.mfa_verified
    /\ \A r \in authchain : r.user_id = resp.ident => r.token = 2

\* C2: in every reachable state, concurrent Logins included, each user has at
\* most one LoginSession row.
C2_SingleSession == \A u \in UserIds : Cardinality({r \in authchain : r.user_id = u}) <= 1

\* C3: Login for a user without the staff flag fails with the not-staff error
\* and leaves the session table and the MFA table as they were.
C3_NotStaffNoChange ==
    [][\A u \in UserIds, redirect \in AllowedRedirects :
        (resp'.op = "Login" /\ resp'.ident = u /\ Login(u, redirect)
            /\ \E r \in users : r.user_id = u /\ ~r.staff) =>
            /\ resp'.status = 403 /\ resp'.msg = "You are not staff"
            /\ UNCHANGED <<authchain, paneldata>>]_vars

\* a former staff member with a live session is refused; the row is still there
C3_Witness ==
    /\ resp.op = "Login" /\ resp.status = 403
    /\ \E r \in authchain : r.user_id = resp.ident

\* C4: ActivateSession on a pending session with the correct code makes the
\* session active and the MfaRecord verified in one step; with a wrong code it
\* fails with mfaInvalidCode and changes nothing, so a retry can still succeed.
C4_Activate ==
    [][\A tok \in TokenInputs, otp \in Codes :
        (resp'.op = "LoginActivateSession" /\ resp'.token = tok
            /\ HasState(tok, "pending") /\ LoginActivateSession(tok, otp)) =>
            IF CorrectOtp(tok, otp)
            THEN /\ resp'.status = 204
                 /\ \A r \in authchain : r.token = tok =>
                      /\ [r EXCEPT !.state = "active"] \in authchain'
                      /\ \E m \in paneldata' : m.user_id = r.user_id /\ m.mfa_verified
                 /\ \A r \in authchain : r.token # tok => r \in authchain'
            ELSE /\ resp'.status = 400 /\ resp'.msg = "mfaInvalidCode"
                 /\ UNCHANGED <<authchain, paneldata>>
                 /\ HasState(tok, "pending")']_vars

\* a first enrollment completed: the session is active and the record verified
C4_Witness ==
    /\ resp.op = "LoginActivateSession" /\ resp.status = 204
    /\ \E r \in authchain : r.token = resp.token /\ r.state = "active"
         /\ \E m \in paneldata : m.user_id = r.user_id /\ m.mfa_verified

\* C5: ActivateSession on a session that is already active is rejected, even
\* with the correct code, and writes nothing.
C5_ActivateNeedsPending ==
    [][\A tok \in TokenInputs, otp \in Codes :
        (resp'.op = "LoginActivateSession" /\ resp'.token = tok
            /\ LoginActivateSession(tok, otp) /\ HasState(tok, "active")) =>
            /\ resp'.status # 204
            /\ UNCHANGED <<authchain, paneldata>>]_vars

\* C6: for a given user secret and TOTP time step, ActivateSession accepts the
\* code of that step at most once (on the same token or on a token from a new
\* Login of the user).
C6_CodeAcceptedOnce == \A k \in DOMAIN accepted : accepted[k] <= 1

\* C7: ResetMfa on an active session with the correct code unverifies the
\* MfaRecord and deletes every session row of the user; the old token never
\* resolves again.
C7_ResetRevokes ==
    [][ /\ \A tok \in TokenInputs, otp \in Codes :
            (resp'.op = "LoginResetMfa" /\ resp'.token = tok
                /\ HasState(tok, "active") /\ CorrectOtp(tok, otp)
                /\ LoginResetMfa(tok, otp)) =>
                /\ resp'.status = 204
                /\ \A r \in authchain : r.token = tok =>
                     /\ ~\E x \in authchain' : x.user_id = r.user_id
                     /\ \E m \in paneldata' : m.user_id = r.user_id
                     /\ \A m \in paneldata' : m.user_id = r.user_id => ~m.mfa_verified
                /\ CheckAuth(tok)' = {}
        /\ \A tok \in 1..issued :
            (~\E r \in authchain : r.token = tok) => (~\E r \in authchain' : r.token = tok)
      ]_vars

\* a reset happened: the token is gone and some record is unverified again
C7_Witness ==
    /\ resp.op = "LoginResetMfa" /\ resp.status = 204
    /\ ~\E r \in authchain : r.token = resp.token
    /\ \E m \in paneldata : ~m.mfa_verified

\* C8: ResetMfa with a pending or unknown token fails and changes nothing; on
\* an active session with a wrong code it fails with mfaInvalidCode and changes
\* nothing.
C8_ResetNeedsActive ==
    [][\A tok \in TokenInputs, otp \in Codes :
        (resp'.op = "LoginResetMfa" /\ resp'.token = tok /\ LoginResetMfa(tok, otp)) =>
            /\ ~HasState(tok, "active") =>
                 (resp'.status \notin {200, 204} /\ UNCHANGED <<authchain, paneldata>>)
            /\ (HasState(tok, "active") /\ ~CorrectOtp(tok, otp)) =>
                 /\ resp'.status = 400 /\ resp'.msg = "mfaInvalidCode"
                 /\ UNCHANGED <<authchain, paneldata>>]_vars

\* a reset was refused on a session that is still pending
C8_Witness ==
    /\ resp.op = "LoginResetMfa" /\ resp.status \notin {200, 204}
    /\ \E r \in authchain : r.token = resp.token /\ r.state = "pending"

\* C9: MfaCheckStatus fails with sessionAlreadyActive on an active session;
\* on a pending session of a verified user it returns an empty payload and
\* keeps the secret; on a pending session of an unverified user it stores a
\* new secret and returns exactly the stored one, the session stays pending
\* and the record unverified.
C9_MfaCheckStatus ==
    [][\A tok \in TokenInputs :
       (resp'.op = "LoginMfaCheckStatus" /\ resp'.token = tok /\ LoginMfaCheckStatus(tok)) =>
        /\ HasState(tok, "active") =>
             /\ resp'.status = 400 /\ resp'.msg = "sessionAlreadyActive"
             /\ UNCHANGED <<authchain, paneldata>>
        /\ HasState(tok, "pending") =>
             \A r \in authchain : r.token = tok =>
                \A m \in paneldata : m.user_id = r.user_id =>
                    IF m.mfa_verified
                    THEN /\ resp'.status = 200 /\ resp'.body = NoBody
                         /\ UNCHANGED <<authchain, paneldata>>
                    ELSE /\ resp'.status = 200 /\ resp'.body # NoBody
                         /\ [m EXCEPT !.mfa_secret = resp'.body] \in paneldata'
                         /\ \A x \in paneldata' : x.user_id = r.user_id =>
                               (x.mfa_secret = resp'.body /\ ~x.mfa_verified)
                         /\ \A x \in paneldata : x.user_id # r.user_id => x \in paneldata'
                         /\ UNCHANGED authchain]_vars

\* an enrollment payload was returned and its secret is the stored one
C9_Witness ==
    /\ resp.op = "LoginMfaCheckStatus" /\ resp.status = 200 /\ resp.body # NoBody
    /\ \E r \in authchain : r.token = resp.token /\ r.state = "pending"
         /\ \E m \in paneldata : m.user_id = r.user_id /\ m.mfa_secret = resp.body

\* C10: Logout never fails; it deletes the row with the token if there is one,
\* a second Logout changes nothing, rows with other tokens and all MfaRecords
\* stay as they are.
C10_LogoutIdempotent ==
    [][\A tok \in TokenInputs :
       (resp'.op = "Logout" /\ resp'.token = tok /\ Logout(tok)) =>
        /\ resp'.status = 200
        /\ authchain' = {r \in authchain : r.token # tok}
        /\ {r \in authchain' : r.token # tok} = authchain'
        /\ UNCHANGED paneldata]_vars

\* a Logout removed one row and another user's row is still there
C10_Witness ==
    /\ resp.op = "Logout" /\ resp.body = <<1>>
    /\ authchain # {}
    /\ \A r \in authchain : r.token # resp.token
\* C11: GetLoginUrl answers with an authorization URL only for a redirect url
\* of the allow-list; for any other redirect url it fails, with the
\* invalid-redirect error unless the version was refused first.
C11_LoginUrlAllowList ==
    (resp.op = "GetLoginUrl" /\ resp.ident \notin AllowedRedirects) =>
        /\ resp.status = 400
        /\ resp.msg \in {"Invalid redirect url", "Invalid version"}
        /\ resp.body = NoBody

\* the users rows of the session a token names
CallerRows(tok) == UNION {UserRows(r.user_id) : r \in SessionsOf(tok)}
\* the answers ExecuteRpc makes out of the handler's result
FromHandler(r) == r.op = "ExecuteRpc" /\ r.status \in {200, 204, 400}
NoMethodPerm == "You do not have permission to use this method"

C14_FilteredWithinTier ==
    (resp.op = "GetRpcMethods" /\ resp.ident = "filtered" /\ resp.status = 200) =>
        \A row \in CallerRows(resp.token) : \A m \in resp.body[1] :
            TierRank(needs_perms(m)) <= DerivedTier(row)

C14_Witness ==
    /\ resp.op = "GetRpcMethods" /\ resp.ident = "filtered" /\ resp.status = 200
    /\ CallerRows(resp.token) # {}
    /\ resp.body[1] # {} /\ resp.body[1] # RPCMethods

\* C15: for every combination of role flags, the filtered list of
\* GetRpcMethods holds every method whose tier is at or below the caller's
\* highest set tier.
C15_FilteredCoversLowerTiers ==
    (resp.op = "GetRpcMethods" /\ resp.ident = "filtered" /\ resp.status = 200) =>
        \A row \in CallerRows(resp.token) : \A m \in RPCMethods :
            TierRank(needs_perms(m)) <= DerivedTier(row) => m \in resp.body[1]

\* the caller of the token has an active session and the CDN capability
HasCdn(tok) ==
    /\ HasState(tok, "active")
    /\ \A row \in CallerRows(tok) : "CdnManagement" \in Capabilities(row)

\* C16: UploadCdnFileChunk refuses an empty chunk, a chunk of more than
\* 100,000,000 bytes and a caller without the CDN capability, and a refusal
\* leaves the cache as it was; a chunk of exactly 100,000,000 bytes is taken;
\* after a success the cache maps the returned id to exactly the uploaded bytes.
C16_UploadLimits ==
    [][\A tok \in TokenInputs, chunk \in ChunkInputs, id \in ChunkIds :
        (/\ resp'.op = "UploadCdnFileChunk" /\ resp'.token = tok
         /\ UploadCdnFileChunk(tok, chunk, id))
        => /\ (ChunkLen(chunk) = 0 \/ ChunkLen(chunk) > 100000000 \/ ~HasCdn(tok))
                => resp'.status \in {400, 403, 500}
           /\ (ChunkLen(chunk) = 100000000 /\ HasCdn(tok) /\ ~ContainsKey(id))
                => resp'.status = 200
           /\ resp'.status # 200 => cache' = cache
           /\ resp'.status = 200 =>
                /\ \E e \in cache' : e.id = resp'.body[1]
                /\ \A e \in cache' : e.id = resp'.body[1] => e.chunk = chunk
                /\ {e \in cache' : e.id # resp'.body[1]}
                        = {e \in cache : e.id # resp'.body[1]}]_vars

\* a chunk of exactly the largest size is in the cache under the returned id
C16_Witness ==
    /\ resp.op = "UploadCdnFileChunk" /\ resp.status = 200
    /\ \E e \in cache : e.id = resp.body[1] /\ ChunkLen(e.chunk) = 100000000

\* C17: an upload whose generated id collides with a live key generates a
\* new id for every further attempt, so one that fails with the exhausted-id
\* error has generated as many ids as the attempts it is allowed.
C17_NewIdPerAttempt ==
    (resp.op = "UploadCdnFileChunk" /\ resp.msg = "Failed to generate a chunk ID")
        => drawn = MaxTries

\* the time to live the documentation of UploadCdnFileChunk states, in seconds
DocumentedTtl == 600

\* C18: a chunk that is not consumed is in the cache until 10 minutes have
\* passed since its upload and is absent from then on.
C18_ExpiresAfterTenMinutes ==
    \A e \in cache : clock - e.at < DocumentedTtl

\* the refusals of UpdateCdnAsset before it looks at the action
CdnRefusals ==
    {"InvalidOrExpiredToken", NoCdn, "Invalid CDN scope",
     "Asset name cannot contain disallowed characters",
     "Asset path cannot contain non-ASCII characters"}
\* ... and those of AddFile for its list of chunks
ChunkRefusals ==
    {"No chunks were provided", "Too many chunks were provided", "Chunk does not exist"}

\* C19: an AddFile that lists a chunk id which is not in the cache when the
\* call starts fails with the chunk-missing error, and no chunk has been
\* removed and no file or directory created or changed.
C19_ChunkMissing ==
    /\ (resp.op = "AddFile" /\ seen.missing /\ resp.msg \notin CdnRefusals)
            => resp.status = 400 /\ resp.msg = "Chunk does not exist" /\ seen.same
    /\ (resp.op = "AddFile" /\ resp.msg = "Chunk does not exist")
            => seen.missing /\ seen.same

\* the refusal is in force while the cache holds a chunk it could have removed
C19_Witness ==
    /\ resp.op = "AddFile" /\ resp.msg = "Chunk does not exist"
    /\ seen.missing /\ seen.same
    /\ cache # {}

\* C20: an AddFile with overwrite = false whose destination exists fails
\* with the already-exists error, and one with overwrite = true whose
\* destination is a directory is refused too; the destination, the chunk
\* cache and the rest of the file system stay as they were.
C20_NoOverwrite ==
    (resp.op = "AddFile" /\ resp.msg \notin CdnRefusals \cup ChunkRefusals) =>
        /\ (seen.dest \in {"dir", "file"} /\ ~seen.overwrite)
                => resp.status = 400 /\ resp.msg = "Asset already exists" /\ seen.same
        /\ (seen.dest = "dir" /\ seen.overwrite)
                => /\ resp.status = 400
                   /\ resp.msg = "Asset to be replaced is a directory"
                   /\ seen.same

\* an existing file is kept while the chunks for its replacement are in the cache
C20_Witness ==
    /\ resp.op = "AddFile" /\ resp.msg = "Asset already exists"
    /\ seen.dest = "file" /\ ~seen.overwrite /\ seen.same
    /\ cache # {}
    /\ \E n \in Nodes : IsFile(fs[n])

\* every listed chunk id held a payload when the call started
AllListed == \A i \in DOMAIN seen.payloads : seen.payloads[i] # <<>>

\* C21: an AddFile that succeeds leaves at scope-root/path/name a file whose
\* bytes are those of the listed chunks, in the order of the list, and whose
\* digest is the one supplied; and it does succeed when every listed chunk is
\* present, the digest is that of their concatenation, and the named
\* destination is free or a file to be overwritten.
C21_PublishExact ==
    (resp.op = "AddFile" /\ resp.msg \notin CdnRefusals) =>
        /\ resp.status = 204 =>
                /\ AllListed
                /\ IsFile(fs[seen.final])
                /\ Bytes(fs[seen.final][2]) = Bytes(seen.payloads)
                /\ Sha512Hex(fs[seen.final][2]) = seen.sha512
        /\ (/\ AllListed
            /\ Bytes(seen.sha512[2]) = Bytes(seen.payloads)
            /\ seen.named
            /\ seen.before = Absent \/ (IsFile(seen.before) /\ seen.overwrite))
                => resp.status = 204

\* three chunks of ten bytes, not all alike, make a file of thirty bytes
C21_Witness ==
    /\ resp.op = "AddFile" /\ resp.status = 204
    /\ Len(seen.payloads) = 3
    /\ seen.payloads[1] # seen.payloads[3]
    /\ Len(Bytes(fs[seen.final][2])) = 30

\* C22: an AddFile whose digest is not that of the assembled file answers
\* with the hash-mismatch error and what stood at the destination before
\* (nothing, or the old file when overwrite is set) stands there after.
C22_MismatchKeepsDestination ==
    (/\ resp.op = "AddFile" /\ resp.msg \notin CdnRefusals
     /\ AllListed
     /\ Bytes(seen.sha512[2]) # Bytes(seen.payloads)
     /\ seen.before = Absent \/ (IsFile(seen.before) /\ seen.overwrite))
        => /\ resp.status = 400 /\ resp.msg = "SHA512 hash does not match"
           /\ Kind(fs, seen.final) = seen.before

\* C23: an AddFile that answers with an error has changed neither the chunk
\* cache nor the directory tree under the scope root.
C23_ErrorNoMutation ==
    [][(resp'.op = "AddFile" /\ resp'.status # 204) => UNCHANGED <<cache, fs>>]_vars

\* C24: when AddFile returns, with success or with an error (no crash in
\* between), the temporary file it created is gone: /tmp holds the files it
\* held before the call.
C24_NoTempLeft ==
    [][resp'.op = "AddFile" => tmp' = tmp]_vars

\* C25: in every state, also while AddFile requests are in flight, after a
\* crash and as a ReadFile returns it, a file of the tree holds the complete
\* content of an AddFile whose digest test passed (the tree starts empty, so
\* every earlier content is one of these too).
C25_NeverPartial ==
    /\ \A n \in Nodes : IsFile(fs[n]) => fs[n][2] \in hist.passed
    /\ (resp.op = "ReadFile" /\ resp.status = 200) => resp.body[1] \in hist.passed

\* C26: a chunk is removed from the cache as AddFile reads it, and no
\* uploaded chunk (a chunk id and the upload that stored it) is written into
\* more than one temporary file, however the AddFile requests interleave.
C26_SingleUse ==
    /\ \A k \in DOMAIN hist.written : hist.written[k] = 1
    /\ \A i \in 1..NumChunkIds :
            (<<i, hist.serial[i]>> \in DOMAIN hist.written) => ~ContainsKey(i)

\* two requests that listed the same chunk were in flight together: one
\* wrote it, the other found it gone
C26_Witness ==
    /\ resp.op = "AddFile" /\ resp.msg = "Chunk id does not exist"
    /\ \E p \in Procs : pc[p] # "idle" /\ job[p].content # <<>>
    /\ \E k \in DOMAIN hist.written : k[2] = 2

\* the actions of UpdateCdnAsset, and its refusals of a scope, name or path
CdnOps == {"ListPath", "ReadFile", "CreateFolder", "AddFile", "CopyFile", "Delete"}
InputRefusals ==
    {"Invalid CDN scope", "Asset name cannot contain disallowed characters",
     "Asset path cannot contain non-ASCII characters"}

\* C27: whatever the action, a request of a caller who may manage the CDN
\* with a scope that is not configured, a name with "/", a backslash, a
\* disallowed character or a leading ".", or a path or copy_to with "..",
\* "//", a backslash or a leading "/", is refused for that, whatever the tree
\* and the chunk cache hold, and tree, cache and /tmp stay as they were.
C27_RejectedFirst ==
    (/\ resp.op \in CdnOps
     /\ resp.msg \notin {"InvalidOrExpiredToken", NoCdn}
     /\ seen.invalid)
        => /\ resp.status \in {400, 500}
           /\ resp.msg \in InputRefusals
           /\ seen.same

\* a CopyFile is refused for its input while there is a file it could copy
C27_Witness ==
    /\ resp.op = "CopyFile" /\ seen.invalid
    /\ resp.msg \in InputRefusals
    /\ \E n \in Nodes : IsFile(fs[n])
    /\ cache # {}

\* C28: when scope, name, path and copy_to pass validation, every path the
\* handler goes on to use has, below the scope root, only components that
\* are neither ".." nor empty, and the destination is the components of the
\* path followed by the name.
C28_InsideScope ==
    ("ok" \in DOMAIN seen /\ seen.ok) =>
        /\ \A str \in seen.touched : \A i \in 1..Len(Resolve(str)) :
                Resolve(str)[i] \notin {<<".", ".">>, <<>>}
        /\ Resolve(asset_final_path(seen.path, seen.name))
                = Resolve(seen.path) \o (IF seen.name = <<>> THEN <<>> ELSE <<seen.name>>)

\* a path with dots and a slash in it that passes validation
C28_Witness ==
    /\ "ok" \in DOMAIN seen /\ seen.ok
    /\ \E i, j \in 1..Len(seen.path) : seen.path[i] = "." /\ seen.path[j] = "/"
    /\ seen.name # <<>>
    /\ Len(Resolve(asset_final_path(seen.path, seen.name))) >= 2

\* the Authorization header equals the api_token stored for staff_id, and
\* that user has the role flag the endpoint asks for
Authorized(op, headers, staff_id) ==
    \E r \in UserRows(staff_id) :
        /\ headers = {r.api_token}
        /\ IF op \in {"approve_bot", "deny_bot"} THEN r.staff ELSE r.hadmin \/ r.iblhdev

\* a REST handler calls its bot action for authorized callers and for no other
RestInvokedIffAuthorized ==
    resp.op \in RestOps =>
        (seen.invoked <=> Authorized(resp.op, resp.token, resp.ident))

\* C29: a REST staff-action endpoint calls its bot action only if the
\* Authorization header equals the api_token of the user named by staff_id and
\* that user has the endpoint's role flag; in every other case it answers 401
\* and does not call the action.
C29_GuardedOr401 ==
    resp.op \in RestOps =>
        /\ seen.invoked => Authorized(resp.op, resp.token, resp.ident)
        /\ ~Authorized(resp.op, resp.token, resp.ident) =>
                resp.status = 401 /\ ~seen.invoked

\* the same request was refused for a caller without a users row and for one
\* with a row
RefusedBoth(op) ==
    /\ hist.missing # <<>> /\ hist.known # <<>>
    /\ hist.missing[1] = op /\ hist.known[1] = op
    /\ hist.missing[2] = hist.known[2]

\* a REST endpoint's refusal is the same whether or not staff_id has a row
RestSameRefusal == \A op \in RestOps : RefusedBoth(op) => hist.missing = hist.known

\* C30: a refusal never shows whether the user exists: Login and every REST
\* staff-action endpoint answer the same request with the same status and
\* message for a user without a users row and for a user with a row who is
\* not authorized.
C30_SameRefusal ==
    \A op \in RestOps \cup {"Login"} : RefusedBoth(op) => hist.missing = hist.known

\* a confirmed staff recalc has just completed
Recalculated ==
    /\ "recalculated" \in DOMAIN seen /\ seen.recalculated
    /\ resp.op = "staff_recalc" /\ resp.msg = "Recalculated staff list"
HoldsRole(u, role) == u \in DOMAIN guild /\ role \in guild[u]

\* after a staff recalc, ibldev is set exactly for the members who hold the
\* Developer or the Head Developer role
RecalcIbldev ==
    Recalculated =>
        \A r \in users :
            r.ibldev <=> (HoldsRole(r.user_id, Developer) \/ HoldsRole(r.user_id, HeadDeveloper))

\* C31: after a confirmed staff recalc, a user's admin flag is set exactly
\* when the member holds the Staff Manager role; no user without that role,
\* members of the staff server or not, has admin = true.
C31_AdminIffStaffManager ==
    Recalculated =>
        \A r \in users : r.admin <=> HoldsRole(r.user_id, StaffManager)

\* C32: after a confirmed staff recalc, iblhdev is set exactly when the member
\* holds the Head Developer role, and ibldev exactly when the member holds the
\* Developer or the Head Developer role, whatever roles the member holds and
\* held before.
C32_DevFlagsFollowRoles ==
    Recalculated =>
        \A r \in users :
            /\ r.iblhdev <=> HoldsRole(r.user_id, HeadDeveloper)
            /\ r.ibldev <=> (HoldsRole(r.user_id, Developer)
                                \/ HoldsRole(r.user_id, HeadDeveloper))

\* C33: in every reachable state, however Login, MfaCheckStatus,
\* ActivateSession, ResetMfa and Logout requests interleave, an active
\* LoginSession exists only for a user whose MfaRecord is verified.
C33_ActiveImpliesVerified ==
    \A r \in authchain :
        r.state = "active" => \E m \in PanelRows(r.user_id) : m.mfa_verified

\* an active session, while a ResetMfa of its user has unverified the
\* MfaRecord in its transaction and is about to delete the user's sessions
C33_Witness ==
    \E r \in authchain : \E p \in Procs :
        /\ r.state = "active"
        /\ pc[p] = "reset_delete" /\ tx[p].user = r.user_id
        /\ \E m \in tx[p].pd : ~m.mfa_verified

\* C34: when ActivateSession returns success, the session row of the token
\* exists and is active as the transaction commits; and a commit that turns
\* the MfaRecord verified also turns an existing session row active. This
\* holds when a Logout, Login or ResetMfa of the same user commits between
\* the token lookup and the updates.
C34_ActivatedAtCommit ==
    [][(resp'.op = "LoginActivateSession" /\ resp'.status = 204
            /\ \E p \in Procs : pc[p] = "act_commit" /\ pc'[p] = "idle") =>
        /\ \E r \in authchain' : r.token = resp'.token /\ r.state = "active"
        /\ (\E m \in paneldata' : m.mfa_verified /\ m \notin paneldata) =>
                \E r \in authchain' : r.state = "active" /\ r \notin authchain]_vars

\* C35: an AddFile whose listed chunk ids are all in the cache when the call
\* starts, with no other request and no expiry during the call, does not fail
\* for a missing chunk, whatever the list, lists naming an id twice included.
C35_LiveChunksSuffice ==
    (resp.op = "AddFile" /\ "missing" \in DOMAIN seen /\ ~seen.missing) =>
        resp.msg \notin {"Chunk does not exist", "Chunk id does not exist"}

\* the nodes at or below a node that held something before the last request
Below(node) == {n \in Nodes : IsPrefix(node, n) /\ hist.before[n] # Absent}

\* C36: no UpdateCdnAsset action removes or replaces the scope root itself:
\* Delete and CopyFile with delete_original = true only remove entries below
\* the root, whatever validated path and name they get, empty ones included.
C36_RootStays ==
    (hist.kind \in CdnOps /\ Kind(hist.before, <<>>) = Dir) => Kind(fs, <<>>) = Dir

\* C37: a CopyFile with overwrite = false changes nothing that is already at
\* the copy_to location: if copy_to is there before the call, as a file or as
\* a directory, it and every entry below it are the same after the call.
C37_NoOverwriteKeeps ==
    (hist.kind = "CopyFile" /\ ~hist.overwrite
            /\ metadata(hist.before, hist.dst) \in {"dir", "file"}) =>
        \A n \in Below(hist.dst) : fs[n] = hist.before[n]

\* where the last CopyFile puts the entry n of its source
MovedTo(n) == hist.dst \o SubSeq(n, Len(hist.final) + 1, Len(n))

\* C38: a CopyFile of a directory that succeeds leaves the whole tree of the
\* source at the destination; with delete_original = true the source is gone
\* then and the destination still holds that tree.
C38_TreePreserved ==
    (hist.kind = "CopyFile" /\ metadata(hist.before, hist.final) = "dir"
            /\ resp.status = 204) =>
        /\ \A n \in Below(hist.final) :
                MovedTo(n) \in Nodes => fs[MovedTo(n)] = hist.before[n]
        /\ (hist.delete_original /\ hist.final # hist.dst) =>
                metadata(fs, hist.final) = "NotFound"

\* C39: in every interleaving of approve, deny and reset for the same user the
\* stored staff_onboard_state becomes Denied only from PendingManagerReview and
\* Completed only from PendingManagerReview or Denied; a Completed user is
\* never moved to Denied.
C39_OnboardTransitions ==
    [][\A u \in UserIds :
          /\ (onboard'[u] = Denied /\ onboard[u] # Denied) =>
                    onboard[u] = PendingManagerReview
          /\ (onboard'[u] = Completed /\ onboard[u] # Completed) =>
                    onboard[u] \in ApproveFrom]_vars

\* C40: after staff del went through for a user, no request with that user's
\* staff_id and api_token calls approve, deny, vote-reset, vote-reset-all or
\* unverify until the user is given a role flag again.
C40_RemovedStaffShutOut ==
    (hist.rest /\ resp.op \in RestOps /\ resp.ident \in hist.removed) => ~seen.invoked
====
